---- MODULE Spec2Model ----
(***************************************************************************)
(* Synchronous data-parallel training as the notebooks of this repository  *)
(* program it: the MirroredStrategy custom training loop (notebook 28),    *)
(* the loss scaling of compute_loss and of the multi-worker Estimator's    *)
(* model_fn, and the input partitioning of input_fn and of the distributed *)
(* dataset.                                                                *)
(*                                                                         *)
(* Tensors are exact rationals [n, d] (d > 0, lowest terms); d = 0 is NaN. *)
(* Floating-point rounding is outside the model.                           *)
(***************************************************************************)
EXTENDS Integers, Sequences, FiniteSets, TLC

\* ------------------------------------------------------------- bounds
\* The notebooks use 64 examples per replica, 10 epochs, 60000 examples and
\* whatever devices the machine has; the model scales these down.
MaxPerReplica == 2
MaxReplicas == 2
MaxEpochs == 2
MaxExamples == 4
MaxWorkers == 3
MaxSteps == 2

\* ------------------------------------------------------------- tensors
NaN == [n |-> 0, d |-> 0]

IsNaN(a) == a.d = 0

Abs(i) == IF i < 0 THEN -i ELSE i

RECURSIVE GCD(_, _)
GCD(a, b) == IF b = 0 THEN a ELSE GCD(b, a % b)

\* The scalar n/d in lowest terms.
Scalar(n, d) ==
    IF d = 0 THEN NaN
    ELSE LET g == GCD(Abs(n), Abs(d))
             s == IF d < 0 THEN -1 ELSE 1
         IN  [n |-> s * (n \div g), d |-> Abs(d) \div g]

Zero == Scalar(0, 1)

Plus(a, b) ==
    IF IsNaN(a) \/ IsNaN(b) THEN NaN
    ELSE Scalar(a.n * b.d + b.n * a.d, a.d * b.d)

Minus(a, b) ==
    IF IsNaN(a) \/ IsNaN(b) THEN NaN
    ELSE Scalar(a.n * b.d - b.n * a.d, a.d * b.d)

Times(a, b) ==
    IF IsNaN(a) \/ IsNaN(b) THEN NaN
    ELSE Scalar(a.n * b.n, a.d * b.d)

AbsVal(a) == IF IsNaN(a) THEN NaN ELSE Scalar(Abs(a.n), a.d)

\* d|a|/da, the subgradient 0 at 0.
Sign(a) ==
    IF IsNaN(a) THEN NaN
    ELSE IF a.n > 0 THEN Scalar(1, 1)
    ELSE IF a.n < 0 THEN Scalar(-1, 1)
    ELSE Zero

\* tf.reduce_sum over a vector of scalars.
RECURSIVE reduce_sum(_)
reduce_sum(t) == IF t = <<>> THEN Zero ELSE Plus(Head(t), reduce_sum(Tail(t)))

Range(f) == {f[i] : i \in DOMAIN f}

\* ------------------------------------------------------------- state
VARIABLES
    \* the distribution strategy and the batch size derived from it
    num_replicas_in_sync, GLOBAL_BATCH_SIZE,
    \* one step's loss computation, as compute_loss / model_fn perform it
    lossPath, labels, predictions, per_replica_losses, denominators,
    reduced_loss,
    \* what the loss-scaling cells warn against, applied to the same step: each
    \* replica's tf.reduce_mean loss, and a tf.metrics.Mean fed the scaled losses
    mean_losses, loss_metric,
    \* input_fn of the multi-worker Estimator: the dataset tfds.load returns,
    \* the number of workers, the calls made so far and what each returned
    mnist_dataset, num_input_pipelines, input_calls, worker_input,
    unsharded_input,
    \* one global batch and the per-replica values the distributed dataset
    \* makes of it
    dist_batch, distributed, per_replica_inputs,
    \* the custom training loop: the datasets, the driver's position, the
    \* iterators of the running epoch
    train_examples, test_examples, pc, epoch, train_iter, test_iter,
    \* the running step: the per-replica inputs, each replica's position and
    \* its local predictions, loss and gradient, and the all-reduced gradient
    dataset_inputs, rpc, replica_predictions, replica_loss, gradients,
    all_reduced,
    \* the mirrored variable and the optimizer's state, one copy per replica
    model, optimizer,
    \* the driver's accumulators and the metrics
    total_loss, num_batches, train_loss, train_accuracy, test_loss,
    test_accuracy,
    \* checkpoints saved, lines printed
    checkpoints, printed,
    \* history: the variable and optimizer as the running step found them, the
    \* global batch of the running step, the number of steps completed
    step_start, step_batch, steps_done,
    \* the fixed-step iterator loop: the outer and inner loop counters, the
    \* number of iterators made, the batches taken of the current one, and the
    \* history of the batches the steps were given
    outer, inner, iter_count, iter_position, consumed,
    \* the linear model of the training basics: its two variables, the training
    \* data, the loop counter, the collected histories and the last call made
    Model_W, Model_b, basics_inputs, basics_outputs, basics_epoch, Ws, bs,
    last_call,
    \* model.fit with a ModelCheckpoint callback: the callback's configuration,
    \* the position and epoch of fit, the callback's counter, the model's
    \* weights, the checkpoint directory with its "checkpoint" state file, and
    \* what latest_checkpoint and load_weights gave
    fit_config, fit_pc, fit_epoch, epochs_since_last_save, weights, directory,
    checkpoint_state, latest, loaded_weights,
    \* saving and restoring: the API used, the position, the objects the
    \* checkpoint holds by key, whether the new model is made inside the
    \* strategy's scope, the new model and optimizer (one copy per replica of
    \* their scope) and what evaluate returned of the saved and the new model
    ckpt_api, ckpt_pc, saved_objects, with_strategy, new_model, new_optimizer,
    eval_saved, eval_restored,
    \* the epoch loop with the iteration driven outside or inside the compiled
    \* function: which of the two, the batches the epoch's iteration of the
    \* dataset holds, the batches passed to training steps in the epoch so far,
    \* and for each completed epoch its batches, steps and num_batches
    drive_mode, epoch_batches, taken, epochs_run,
    \* the Estimator made of a Keras model: its position, the examples input_fn
    \* loads, the global step and the step training stops at, the number of
    \* batches the iterators of train and of evaluate have given, the number of
    \* evaluation steps made and what evaluate returned
    est_pc, est_dataset, global_step, last_step, train_pos, eval_pos, eval_count,
    eval_result,
    \* model.fit with the LearningRateScheduler and PrintLR callbacks: the
    \* position and epoch of fit, the optimizer's learning-rate variable, the
    \* rate each epoch trained with, the lines PrintLR printed and the last
    \* call of decay with what it returned
    lr_pc, lr_epoch, optimizer_lr, lr_used, lr_printed, decay_call

lossVars == <<lossPath, labels, predictions, per_replica_losses, denominators,
              reduced_loss, mean_losses, loss_metric>>

inputVars == <<mnist_dataset, num_input_pipelines, input_calls, worker_input,
               unsharded_input, dist_batch, distributed, per_replica_inputs>>

dataVars == <<train_examples, test_examples>>

driverVars == <<pc, epoch, train_iter, test_iter, total_loss, num_batches,
                train_loss>>

stepVars == <<dataset_inputs, rpc, replica_predictions, replica_loss, gradients,
              all_reduced>>

mirroredVars == <<model, optimizer>>

metricVars == <<train_accuracy, test_loss, test_accuracy>>

outputVars == <<checkpoints, printed>>

historyVars == <<step_start, step_batch, steps_done>>

trainVars == <<dataVars, driverVars, stepVars, mirroredVars, metricVars,
               outputVars, historyVars>>

fixedVars == <<outer, inner, iter_count, iter_position, consumed>>

basicsVars == <<Model_W, Model_b, basics_inputs, basics_outputs,
                basics_epoch, Ws, bs, last_call>>

fitVars == <<fit_config, fit_pc, fit_epoch, epochs_since_last_save, weights,
             directory, checkpoint_state, latest, loaded_weights>>

ckptVars == <<ckpt_api, ckpt_pc, saved_objects, with_strategy, new_model,
              new_optimizer, eval_saved, eval_restored>>

driveVars == <<drive_mode, epoch_batches, taken, epochs_run>>

estVars == <<est_pc, est_dataset, global_step, last_step, train_pos,
             eval_pos, eval_count, eval_result>>

lrVars == <<lr_pc, lr_epoch, optimizer_lr, lr_used, lr_printed, decay_call>>

\* The state of the programs other than the three above.
otherVars == <<fixedVars, basicsVars, fitVars, ckptVars, driveVars, estVars,
               lrVars>>

exceptFixedVars == <<basicsVars, fitVars, ckptVars, driveVars, estVars,
                     lrVars>>

exceptBasicsVars == <<fixedVars, fitVars, ckptVars, driveVars, estVars,
                      lrVars>>

exceptFitVars == <<fixedVars, basicsVars, ckptVars, driveVars, estVars,
                   lrVars>>

exceptCkptVars == <<fixedVars, basicsVars, fitVars, driveVars, estVars,
                    lrVars>>

exceptDriveVars == <<fixedVars, basicsVars, fitVars, ckptVars, estVars,
                     lrVars>>

exceptEstVars == <<fixedVars, basicsVars, fitVars, ckptVars, driveVars,
                   lrVars>>

exceptLrVars == <<fixedVars, basicsVars, fitVars, ckptVars, driveVars,
                  estVars>>

vars == <<num_replicas_in_sync, GLOBAL_BATCH_SIZE, lossVars, inputVars,
          trainVars, otherVars>>

\* No tensor yet (a Python name not yet bound).
None == [n |-> 0, d |-> -1]

Replicas == 1..num_replicas_in_sync

\* The fixed-step iterator loop does not run.
FixedOff ==
    /\ outer = 0
    /\ inner = 0
    /\ iter_count = 0
    /\ iter_position = 0
    /\ consumed = <<>>

\* The linear model of the training basics does not exist.
BasicsOff ==
    /\ Model_W = None
    /\ Model_b = None
    /\ basics_inputs = <<>>
    /\ basics_outputs = <<>>
    /\ basics_epoch = 0
    /\ Ws = <<>>
    /\ bs = <<>>
    /\ last_call = <<>>

\* No model.fit with a ModelCheckpoint callback runs.
FitOff ==
    /\ fit_config = <<>>
    /\ fit_pc = "off"
    /\ fit_epoch = 0
    /\ epochs_since_last_save = 0
    /\ weights = 0
    /\ directory = {}
    /\ checkpoint_state = <<>>
    /\ latest = <<>>
    /\ loaded_weights = -1

\* No checkpoint is saved or restored.
CkptOff ==
    /\ ckpt_api = "off"
    /\ ckpt_pc = "off"
    /\ saved_objects = {}
    /\ with_strategy = FALSE
    /\ new_model = <<>>
    /\ new_optimizer = <<>>
    /\ eval_saved = <<>>
    /\ eval_restored = <<>>

\* No epoch of the two ways of driving the iteration runs.
DriveOff ==
    /\ drive_mode = "off"
    /\ epoch_batches = <<>>
    /\ taken = <<>>
    /\ epochs_run = <<>>

\* No Estimator made of the Keras model trains or evaluates.
EstOff ==
    /\ est_pc = "off"
    /\ est_dataset = <<>>
    /\ global_step = 0
    /\ last_step = 0
    /\ train_pos = 0
    /\ eval_pos = 0
    /\ eval_count = 0
    /\ eval_result = <<>>

\* No fit with the LearningRateScheduler callback runs.
LrOff ==
    /\ lr_pc = "off"
    /\ lr_epoch = 0
    /\ optimizer_lr = <<>>
    /\ lr_used = <<>>
    /\ lr_printed = <<>>
    /\ decay_call = <<>>

ExceptFixedOff ==
    /\ BasicsOff
    /\ FitOff
    /\ CkptOff
    /\ DriveOff
    /\ EstOff
    /\ LrOff

ExceptBasicsOff ==
    /\ FixedOff
    /\ FitOff
    /\ CkptOff
    /\ DriveOff
    /\ EstOff
    /\ LrOff

ExceptFitOff ==
    /\ FixedOff
    /\ BasicsOff
    /\ CkptOff
    /\ DriveOff
    /\ EstOff
    /\ LrOff

ExceptCkptOff ==
    /\ FixedOff
    /\ BasicsOff
    /\ FitOff
    /\ DriveOff
    /\ EstOff
    /\ LrOff

ExceptDriveOff ==
    /\ FixedOff
    /\ BasicsOff
    /\ FitOff
    /\ CkptOff
    /\ EstOff
    /\ LrOff

ExceptEstOff ==
    /\ FixedOff
    /\ BasicsOff
    /\ FitOff
    /\ CkptOff
    /\ DriveOff
    /\ LrOff

ExceptLrOff ==
    /\ FixedOff
    /\ BasicsOff
    /\ FitOff
    /\ CkptOff
    /\ DriveOff
    /\ EstOff

OthersOff ==
    /\ FixedOff
    /\ BasicsOff
    /\ FitOff
    /\ CkptOff
    /\ DriveOff
    /\ EstOff
    /\ LrOff









\* ------------------------------------------------------------- loss
BATCH_SIZE_PER_REPLICA == MaxPerReplica

\* BATCH_SIZE of the multi-worker Estimator notebook: the batch size of each
\* worker's own input pipeline.
BATCH_SIZE == MaxPerReplica

\* The per-example loss of the loss object with Reduction.NONE: one scalar per
\* example, here the absolute error of the prediction.
loss_object(y_true, y_pred) ==
    [i \in 1..Len(y_true) |-> AbsVal(Minus(Scalar(y_true[i], 1), y_pred[i]))]

compute_average_loss_local(per_example_loss, global_batch_size) ==
    IF Len(per_example_loss) = 0 THEN Zero
    ELSE Times(reduce_sum(per_example_loss), Scalar(1, Len(per_example_loss)))

\* tf.nn.compute_average_loss: reduce_sum(loss) * (1. / global_batch_size).
compute_average_loss(per_example_loss, global_batch_size) ==
    Times(reduce_sum(per_example_loss), Scalar(1, global_batch_size))

compute_loss(y_true, y_pred) ==
    LET per_example_loss == loss_object(y_true, y_pred)
    IN  compute_average_loss(per_example_loss, GLOBAL_BATCH_SIZE)

\* The loss of model_fn: tf.reduce_sum(loss) * (1. / BATCH_SIZE).
model_fn_loss(y_true, logits) ==
    LET loss == loss_object(y_true, logits)
    IN  Times(reduce_sum(loss), Scalar(1, BATCH_SIZE))

strategy_reduce_MEAN(per_replica) ==
    Times(reduce_sum([r \in 1..Len(per_replica) |-> per_replica[r]]),
          Scalar(1, Len(per_replica)))

\* strategy.reduce(tf.distribute.ReduceOp.SUM, per_replica, axis=None).
strategy_reduce_SUM(per_replica) ==
    reduce_sum([r \in 1..Len(per_replica) |-> per_replica[r]])

\* tf.keras.metrics.Mean: update_state, result, reset_states.
EmptyMetric == [total |-> Zero, count |-> 0]

mean_update_state_one_count(metric, values) ==
    [total |-> Plus(metric.total, reduce_sum(values)), count |-> 1]

mean_update_state(metric, values) ==
    [total |-> Plus(metric.total, reduce_sum(values)),
     count |-> metric.count + Len(values)]

\* SparseCategoricalAccuracy.update_state(labels, predictions).
accuracy_update_state(metric, y_true, y_pred) ==
    mean_update_state(metric,
        [i \in 1..Len(y_true) |->
            IF y_pred[i] = Scalar(y_true[i], 1) THEN Scalar(1, 1) ELSE Zero])

reset_states_keeping(metric) == metric

\* metric.reset_states().
reset_states(metric) == EmptyMetric

result(metric) ==
    IF metric.count = 0 THEN Zero
    ELSE Times(metric.total, Scalar(1, metric.count))

reduce_mean_over_global(t) == Times(reduce_sum(t), Scalar(1, GLOBAL_BATCH_SIZE))

\* tf.reduce_mean over a vector of scalars: the sum divided by the number of
\* elements (NaN of none).
reduce_mean(t) == Times(reduce_sum(t), Scalar(1, Len(t)))

\* ------------------------------------------------------------- SpecLoss
\* One step's loss computation on inputs drawn from bounded sets: R replicas,
\* each with a sub-batch of 0..MaxPerReplica labelled examples; in the custom
\* loop the global batch size is the number of examples of the batch, in the
\* Estimator every worker reads a batch of BATCH_SIZE examples of its own.
LabelValues == 2..5

SubBatches(maxlen) ==
    UNION {[1..k -> LabelValues] : k \in 0..maxlen}

RECURSIVE CountExamples(_)
CountExamples(batches) ==
    IF batches = <<>> THEN 0
    ELSE Len(Head(batches)) + CountExamples(Tail(batches))

ZeroPredictions(batches) ==
    [r \in 1..Len(batches) |-> [i \in 1..Len(batches[r]) |-> Zero]]

InitLossCustom ==
    /\ lossPath = "custom"
    /\ num_replicas_in_sync \in 1..MaxReplicas
    /\ labels \in [1..num_replicas_in_sync -> SubBatches(MaxPerReplica)]
    /\ CountExamples(labels) >= 1
    /\ GLOBAL_BATCH_SIZE = CountExamples(labels)

InitLossEstimator ==
    /\ lossPath = "estimator"
    /\ num_replicas_in_sync \in 1..MaxReplicas
    /\ labels \in [1..num_replicas_in_sync -> [1..BATCH_SIZE -> LabelValues]]
    /\ GLOBAL_BATCH_SIZE = BATCH_SIZE * num_replicas_in_sync

\* The input pipeline takes no part in SpecLoss.
InputOff ==
    /\ mnist_dataset = <<>>
    /\ num_input_pipelines = 0
    /\ input_calls = {}
    /\ worker_input = <<>>
    /\ unsharded_input = <<>>
    /\ dist_batch = <<>>
    /\ distributed = FALSE
    /\ per_replica_inputs = <<>>

\* The training loop takes no part in SpecLoss and SpecInput.
TrainOff ==
    /\ train_examples = <<>>
    /\ test_examples = <<>>
    /\ pc = "off"
    /\ epoch = 0
    /\ train_iter = <<>>
    /\ test_iter = <<>>
    /\ dataset_inputs = <<>>
    /\ rpc = <<>>
    /\ replica_predictions = <<>>
    /\ replica_loss = <<>>
    /\ gradients = <<>>
    /\ all_reduced = None
    /\ model = <<>>
    /\ optimizer = <<>>
    /\ total_loss = Zero
    /\ num_batches = 0
    /\ train_loss = None
    /\ train_accuracy = [total |-> Zero, count |-> 0]
    /\ test_loss = [total |-> Zero, count |-> 0]
    /\ test_accuracy = [total |-> Zero, count |-> 0]
    /\ checkpoints = <<>>
    /\ printed = <<>>
    /\ step_start = <<>>
    /\ step_batch = <<>>
    /\ steps_done = 0

InitLoss ==
    /\ InitLossCustom \/ InitLossEstimator
    /\ InputOff
    /\ TrainOff
    /\ OthersOff
    /\ predictions = ZeroPredictions(labels)
    /\ per_replica_losses = [r \in Replicas |-> None]
    /\ denominators = [r \in Replicas |-> 0]
    /\ reduced_loss = None
    /\ mean_losses = [r \in Replicas |-> None]
    /\ loss_metric = EmptyMetric

\* train_step's loss on replica r: compute_loss(labels, predictions).
ReplicaComputeLoss(r) ==
    /\ lossPath = "custom"
    /\ per_replica_losses[r] = None
    /\ per_replica_losses' =
           [per_replica_losses EXCEPT ![r] = compute_loss(labels[r], predictions[r])]
    /\ denominators' = [denominators EXCEPT ![r] = GLOBAL_BATCH_SIZE]
    /\ UNCHANGED <<num_replicas_in_sync, GLOBAL_BATCH_SIZE, lossPath, labels,
                   predictions, reduced_loss, mean_losses, loss_metric, inputVars,
                   trainVars, otherVars>>

\* model_fn's loss on worker r.
WorkerModelFn(r) ==
    /\ lossPath = "estimator"
    /\ per_replica_losses[r] = None
    /\ per_replica_losses' =
           [per_replica_losses EXCEPT ![r] = model_fn_loss(labels[r], predictions[r])]
    /\ denominators' = [denominators EXCEPT ![r] = BATCH_SIZE]
    /\ UNCHANGED <<num_replicas_in_sync, GLOBAL_BATCH_SIZE, lossPath, labels,
                   predictions, reduced_loss, mean_losses, loss_metric, inputVars,
                   trainVars, otherVars>>

\* distributed_train_step's return value once every replica has its loss.
ReduceLosses ==
    /\ lossPath = "custom"
    /\ reduced_loss = None
    /\ \A r \in Replicas : per_replica_losses[r] # None
    /\ reduced_loss' = strategy_reduce_SUM(per_replica_losses)
    /\ UNCHANGED <<num_replicas_in_sync, GLOBAL_BATCH_SIZE, lossPath, labels,
                   predictions, per_replica_losses, denominators, mean_losses,
                   loss_metric, inputVars, trainVars, otherVars>>

\* The per-replica mean the loss-scaling cell advises against: replica r
\* divides its summed loss by the size of its own input.
ReplicaReduceMean(r) ==
    /\ lossPath = "custom"
    /\ mean_losses[r] = None
    /\ mean_losses' =
           [mean_losses EXCEPT ![r] = reduce_mean(loss_object(labels[r], predictions[r]))]
    /\ UNCHANGED <<num_replicas_in_sync, GLOBAL_BATCH_SIZE, lossPath, labels,
                   predictions, per_replica_losses, denominators, reduced_loss,
                   loss_metric, inputVars, trainVars, otherVars>>

\* The scaled losses of the replicas after replica r.
RECURSIVE track_losses(_, _)
track_losses(metric, r) ==
    IF r = 0 THEN metric
    ELSE mean_update_state(track_losses(metric, r - 1), <<per_replica_losses[r]>>)

\* A tf.metrics.Mean tracking the training loss across the replicas: one
\* update_state per replica with its scaled loss.
TrackLossesWithMean ==
    /\ lossPath = "custom"
    /\ loss_metric.count = 0
    /\ \A r \in Replicas : per_replica_losses[r] # None
    /\ loss_metric' = track_losses(loss_metric, num_replicas_in_sync)
    /\ UNCHANGED <<num_replicas_in_sync, GLOBAL_BATCH_SIZE, lossPath, labels,
                   predictions, per_replica_losses, denominators, reduced_loss,
                   mean_losses, inputVars, trainVars, otherVars>>

NextLoss ==
    \/ \E r \in Replicas : ReplicaComputeLoss(r)
    \/ \E r \in Replicas : WorkerModelFn(r)
    \/ ReduceLosses
    \/ \E r \in Replicas : ReplicaReduceMean(r)
    \/ TrackLossesWithMean

SpecLoss == InitLoss /\ [][NextLoss]_vars

\* ------------------------------------------------------------- claims on SpecLoss
RECURSIVE Flatten(_)
Flatten(batches) ==
    IF batches = <<>> THEN <<>> ELSE Head(batches) \o Flatten(Tail(batches))

GlobalBatchAsScalar == Scalar(GLOBAL_BATCH_SIZE, 1)

\* C1: for a global batch of G examples split over R replicas in any way, each
\* replica's scaled loss times G is the sum of its own per-example losses, and
\* the value distributed_train_step returns (the SUM over the replicas) times G
\* is the sum of all G per-example losses, i.e. it is the batch's average loss;
\* losses [2,3] and [4,5] with G = 4 give 5/4, 9/4 and 7/2.
C1_ScaledLossesSumToAverage ==
    lossPath = "custom" =>
        /\ \A r \in Replicas :
               per_replica_losses[r] # None =>
                   Times(per_replica_losses[r], GlobalBatchAsScalar)
                       = reduce_sum(loss_object(labels[r], predictions[r]))
        /\ reduced_loss # None =>
               Times(reduced_loss, GlobalBatchAsScalar)
                   = reduce_sum(loss_object(Flatten(labels), Flatten(predictions)))
        /\ (labels = <<(<<2, 3>>), (<<4, 5>>)>> /\ reduced_loss # None) =>
               /\ per_replica_losses = <<Scalar(5, 4), Scalar(9, 4)>>
               /\ reduced_loss = Scalar(7, 2)

\* C1's case: an uneven split (two replicas, sub-batches of 2 and 1 examples,
\* G = 3) whose losses were scaled and reduced.
C1_Witness ==
    /\ lossPath = "custom"
    /\ num_replicas_in_sync = 2
    /\ Len(labels[1]) = 2
    /\ Len(labels[2]) = 1
    /\ reduced_loss # None
    /\ reduced_loss # Zero

\* C2: in every step of either training path the denominator that scales a
\* replica's summed loss is the number of examples the step processes across
\* all replicas / workers.
C2_DenominatorIsGlobalBatch ==
    \A r \in Replicas :
        denominators[r] # 0 => denominators[r] = CountExamples(labels)

\* ------------------------------------------------------------- input
Min(a, b) == IF a < b THEN a ELSE b

\* Example k of the dataset: an identity and one pixel value in 0..255.
Example(k) == [id |-> k, image |-> Scalar((k * 85) % 256, 1)]

\* scale(image, label): image = tf.cast(image, tf.float32); image /= 255.
scale(e) == [id |-> e.id, image |-> Times(e.image, Scalar(1, 255))]

map_scale(ds) == [j \in 1..Len(ds) |-> scale(ds[j])]

shard_contiguous(ds, num_shards, index) ==
    LET size == (Len(ds) + num_shards - 1) \div num_shards
    IN  SubSeq(ds, Min(index * size, Len(ds)) + 1, Min((index + 1) * size, Len(ds)))

shard_ignoring_index(ds, num_shards, index) ==
    LET count == IF Len(ds) > 0 THEN (Len(ds) - 1) \div num_shards + 1 ELSE 0
    IN  [j \in 1..count |-> ds[1 + (j - 1) * num_shards]]

\* Dataset.shard(num_shards, index): every num_shards-th element, starting with
\* the one at 0-based position index.
shard(ds, num_shards, index) ==
    LET count == IF Len(ds) > index
                 THEN (Len(ds) - index - 1) \div num_shards + 1
                 ELSE 0
    IN  [j \in 1..count |-> ds[index + 1 + (j - 1) * num_shards]]

\* The orders Dataset.shuffle can produce of n elements (every order; with a
\* buffer smaller than the dataset it produces some of them).
Orders(n) == {p \in [1..n -> 1..n] : \A a, b \in 1..n : a # b => p[a] # p[b]}

shuffle(ds, order) == [j \in 1..Len(ds) |-> ds[order[j]]]

\* Dataset.batch(batch_size), drop_remainder left False: the last batch holds
\* what remains.
batch(ds, batch_size) ==
    [b \in 1..((Len(ds) + batch_size - 1) \div batch_size) |->
        SubSeq(ds, (b - 1) * batch_size + 1, Min(b * batch_size, Len(ds)))]

NoContext == [num_input_pipelines |-> 0, input_pipeline_id |-> 0]

\* input_fn(mode, input_context), `order` being the shuffle's draw.
input_fn(input_context, order) ==
    LET sharded == IF input_context # NoContext
                   THEN shard(mnist_dataset, input_context.num_input_pipelines,
                              input_context.input_pipeline_id)
                   ELSE mnist_dataset
    IN  batch(shuffle(map_scale(sharded), order), BATCH_SIZE)

InputSize(input_context) ==
    IF input_context # NoContext
    THEN Len(shard(mnist_dataset, input_context.num_input_pipelines,
                   input_context.input_pipeline_id))
    ELSE Len(mnist_dataset)

distribute_batch_whole(global_batch) == [r \in Replicas |-> global_batch]

\* What strategy.experimental_distribute_dataset hands the replicas of one
\* global batch: the dataset is rebatched to GLOBAL_BATCH_SIZE //
\* num_replicas_in_sync examples and replica r takes the r-th sub-batch; of a
\* short final batch the later replicas get what is left, possibly nothing.
distribute_batch(global_batch) ==
    LET per_replica == GLOBAL_BATCH_SIZE \div num_replicas_in_sync
    IN  [r \in Replicas |->
            SubSeq(global_batch, Min((r - 1) * per_replica, Len(global_batch)) + 1,
                   Min(r * per_replica, Len(global_batch)))]

\* ------------------------------------------------------------- SpecInput
\* input_fn called once per worker and once without an input_context, and one
\* global batch of the distributed dataset, on inputs drawn from bounded sets.
LossOff ==
    /\ lossPath = "off"
    /\ labels = <<>>
    /\ predictions = <<>>
    /\ per_replica_losses = <<>>
    /\ denominators = <<>>
    /\ reduced_loss = None
    /\ mean_losses = <<>>
    /\ loss_metric = [total |-> Zero, count |-> 0]

\* Either the Estimator's cluster of workers reads the dataset, or the custom
\* loop's strategy distributes one global batch.
InitInputWorkers ==
    /\ \E n \in 0..MaxExamples : mnist_dataset = [k \in 1..n |-> Example(k)]
    /\ num_input_pipelines \in 1..MaxWorkers
    /\ num_replicas_in_sync = num_input_pipelines
    /\ GLOBAL_BATCH_SIZE = BATCH_SIZE * num_input_pipelines
    /\ dist_batch = <<>>

InitInputReplicas ==
    /\ mnist_dataset = <<>>
    /\ num_input_pipelines = 0
    /\ num_replicas_in_sync \in 1..MaxWorkers
    /\ GLOBAL_BATCH_SIZE = BATCH_SIZE_PER_REPLICA * num_replicas_in_sync
    /\ \E n \in 1..GLOBAL_BATCH_SIZE : dist_batch = [k \in 1..n |-> k]

InitInput ==
    /\ LossOff
    /\ TrainOff
    /\ OthersOff
    /\ InitInputWorkers \/ InitInputReplicas
    /\ input_calls = {}
    /\ worker_input = [i \in 0..(num_input_pipelines - 1) |-> <<>>]
    /\ unsharded_input = <<>>
    /\ distributed = FALSE
    /\ per_replica_inputs = <<>>

\* Worker i's input_fn call, with the input_context the strategy gives it.
WorkerInputFn(i) ==
    /\ i \notin input_calls
    /\ LET input_context == [num_input_pipelines |-> num_input_pipelines,
                             input_pipeline_id |-> i]
       IN  \E order \in Orders(InputSize(input_context)) :
               worker_input' =
                   [worker_input EXCEPT ![i] = input_fn(input_context, order)]
    /\ input_calls' = input_calls \cup {i}
    /\ UNCHANGED <<num_replicas_in_sync, GLOBAL_BATCH_SIZE, lossVars, trainVars,
                   otherVars,
                   mnist_dataset,
                   num_input_pipelines, unsharded_input, dist_batch, distributed,
                   per_replica_inputs>>

\* input_fn called with input_context left None.
LocalInputFn ==
    /\ num_input_pipelines > 0
    /\ -1 \notin input_calls
    /\ \E order \in Orders(InputSize(NoContext)) :
           unsharded_input' = input_fn(NoContext, order)
    /\ input_calls' = input_calls \cup {-1}
    /\ UNCHANGED <<num_replicas_in_sync, GLOBAL_BATCH_SIZE, lossVars, trainVars,
                   otherVars,
                   mnist_dataset,
                   num_input_pipelines, worker_input, dist_batch, distributed,
                   per_replica_inputs>>

\* The distributed dataset yields the per-replica values of the global batch.
DistributeBatch ==
    /\ dist_batch # <<>>
    /\ ~distributed
    /\ distributed' = TRUE
    /\ per_replica_inputs' = distribute_batch(dist_batch)
    /\ UNCHANGED <<num_replicas_in_sync, GLOBAL_BATCH_SIZE, lossVars, trainVars,
                   otherVars,
                   mnist_dataset,
                   num_input_pipelines, input_calls, worker_input, unsharded_input,
                   dist_batch>>

NextInput ==
    \/ \E i \in 0..(num_input_pipelines - 1) : WorkerInputFn(i)
    \/ LocalInputFn
    \/ DistributeBatch

SpecInput == InitInput /\ [][NextInput]_vars

\* ------------------------------------------------------------- claims on SpecInput
ExampleIds(batches) == {e.id : e \in Range(Flatten(batches))}

WorkersCalled == input_calls \ {-1}

AllIds == 1..Len(mnist_dataset)

\* C9: the shards input_fn selects for the workers 0..n-1 are pairwise
\* disjoint and together are the whole dataset, each example once; worker i's
\* shard is the examples at the positions congruent to i modulo n, whatever the
\* shuffle drew; without an input_context the whole dataset is returned.
C9_ShardsPartitionDataset ==
    /\ \A i \in WorkersCalled :
           /\ ExampleIds(worker_input[i])
                  = {k \in AllIds : (k - 1) % num_input_pipelines = i}
           /\ CountExamples(worker_input[i])
                  = Cardinality(ExampleIds(worker_input[i]))
    /\ \A i, j \in WorkersCalled :
           i # j => ExampleIds(worker_input[i]) \cap ExampleIds(worker_input[j]) = {}
    /\ WorkersCalled = 0..(num_input_pipelines - 1) =>
           UNION {ExampleIds(worker_input[i]) : i \in WorkersCalled} = AllIds
    /\ -1 \in input_calls =>
           /\ ExampleIds(unsharded_input) = AllIds
           /\ CountExamples(unsharded_input) = Len(mnist_dataset)

\* C9's case: two or more workers, more examples than workers, every worker
\* has read its shard and the unsharded call was made too.
C9_Witness ==
    /\ num_input_pipelines >= 2
    /\ Len(mnist_dataset) > num_input_pipelines
    /\ input_calls = (0..(num_input_pipelines - 1)) \cup {-1}

ShardSizesWithinOne ==
    \A i, j \in WorkersCalled :
        Abs(CountExamples(worker_input[i]) - CountExamples(worker_input[j])) <= 1

EPOCHS == MaxEpochs

\* Example k of fashion_mnist after the division by 255: one pixel value and
\* a class label.
TrainExample(k) == [image |-> Scalar(1 + (k % 2), 1), label |-> 2 + ((k - 1) % 4)]

\* The values create_model's initializer may give the one weight the model
\* keeps of the network.
InitialWeights == {Zero, Scalar(3, 1)}

images_of(inputs) == [i \in 1..Len(inputs) |-> inputs[i].image]

labels_of(inputs) == [i \in 1..Len(inputs) |-> inputs[i].label]

\* model(images): one prediction per image, linear in the weight.
model_call(w, images) == [i \in 1..Len(images) |-> Times(w, images[i])]

\* tape.gradient(loss, model.trainable_variables) for loss =
\* compute_loss(labels, model(images)): the derivative of each example's
\* loss, summed and scaled as compute_loss scales the loss.
tape_gradient(w, inputs) ==
    LET images == images_of(inputs)
        y_true == labels_of(inputs)
        y_pred == model_call(w, images)
        per_example_grad ==
            [i \in 1..Len(inputs) |->
                Times(Sign(Minus(y_pred[i], Scalar(y_true[i], 1))), images[i])]
    IN  compute_average_loss(per_example_grad, GLOBAL_BATCH_SIZE)

\* One update of the optimizer on one copy of the variable: the slot m
\* accumulates the gradient, the variable moves against it and iterations
\* counts the update (Adam's moment estimates, without the square root).
apply_gradients(grad, var, opt) ==
    LET m == Plus(opt.m, grad)
    IN  [var |-> Minus(var, m),
         opt |-> [iterations |-> opt.iterations + 1, m |-> m]]

\* train_step(inputs) run without distribution, on one copy of the variable
\* and the whole of `inputs`: the gradient of compute_loss, applied once.
train_step(var, opt, inputs) ==
    apply_gradients(tape_gradient(var, inputs), var, opt)

contributed_or_raised(r) == rpc[r] \in {"sync", "raised"}

\* Replica r has handed its gradient to the cross-replica reduction inside
\* optimizer.apply_gradients and waits there.
contributed(r) == rpc[r] = "sync"

ready_to_reduce_any == \E r \in Replicas : contributed(r)

\* The all-reduce runs when every replica has handed in its gradient.
ready_to_reduce == \A r \in Replicas : contributed(r)

all_reduce_mean(per_replica) ==
    Times(reduce_sum(per_replica), Scalar(1, Len(per_replica)))

\* The all-reduce of the mirrored strategy: the sum over the replicas.
all_reduce_sum(per_replica) == reduce_sum(per_replica)

gradient_applied_local(r) == gradients[r]

\* The gradient replica r's copy of the variable is updated with: the
\* all-reduced one.
gradient_applied(r) == all_reduced

test_steps_loss_only(r, per_replica) ==
    [loss |-> [total |-> test_loss.total,
               count |-> test_loss.count + Len(per_replica[1])],
     accuracy |-> test_accuracy]

\* test_step on every replica in turn: the two test metrics after the
\* replicas 1..r have updated them.
RECURSIVE test_steps(_, _)
test_steps(r, per_replica) ==
    IF r = 0 THEN [loss |-> test_loss, accuracy |-> test_accuracy]
    ELSE LET before == test_steps(r - 1, per_replica)
             y_true == labels_of(per_replica[r])
             y_pred == model_call(model[r], images_of(per_replica[r]))
             t_loss == loss_object(y_true, y_pred)
         IN  [loss |-> mean_update_state(before.loss, t_loss),
              accuracy |-> accuracy_update_state(before.accuracy, y_true, y_pred)]

\* ------------------------------------------------------------- Spec
\* The custom training loop of notebook 28 under a MirroredStrategy of R
\* replicas: the state after the cells that build the strategy, the datasets,
\* the model, the optimizer and the metrics.
Init ==
    /\ LossOff
    /\ InputOff
    /\ OthersOff
    /\ num_replicas_in_sync \in 1..MaxReplicas
    /\ GLOBAL_BATCH_SIZE = BATCH_SIZE_PER_REPLICA * num_replicas_in_sync
    /\ \E n \in 1..MaxExamples : train_examples = [k \in 1..n |-> TrainExample(k)]
    /\ test_examples = [k \in 1..(MaxPerReplica + 1) |-> TrainExample(k + 1)]
    /\ pc = "epoch"
    /\ epoch = 0
    /\ train_iter = <<>>
    /\ test_iter = <<>>
    /\ dataset_inputs = [r \in Replicas |-> <<>>]
    /\ rpc = [r \in Replicas |-> "idle"]
    /\ replica_predictions = [r \in Replicas |-> <<>>]
    /\ replica_loss = [r \in Replicas |-> None]
    /\ gradients = [r \in Replicas |-> None]
    /\ all_reduced = None
    /\ \E w \in InitialWeights : model = [r \in Replicas |-> w]
    /\ optimizer = [r \in Replicas |-> [iterations |-> 0, m |-> Zero]]
    /\ total_loss = Zero
    /\ num_batches = 0
    /\ train_loss = None
    /\ train_accuracy = EmptyMetric
    /\ test_loss = EmptyMetric
    /\ test_accuracy = EmptyMetric
    /\ checkpoints = <<>>
    /\ printed = <<>>
    /\ step_start = [model |-> model, optimizer |-> optimizer]
    /\ step_batch = <<>>
    /\ steps_done = 0

frozenVars == <<num_replicas_in_sync, GLOBAL_BATCH_SIZE, lossVars, inputVars,
                dataVars, otherVars>>

\* for epoch in range(EPOCHS): total_loss = 0.0; num_batches = 0; the
\* iteration over train_dist_dataset starts, the shuffle drawing a new order.
BeginEpoch ==
    /\ pc = "epoch"
    /\ epoch < EPOCHS
    /\ \E order \in Orders(Len(train_examples)) :
           train_iter' = batch(shuffle(train_examples, order), GLOBAL_BATCH_SIZE)
    /\ total_loss' = Zero
    /\ num_batches' = 0
    /\ pc' = "train"
    /\ UNCHANGED <<frozenVars, epoch, test_iter, train_loss, stepVars,
                   mirroredVars, metricVars, outputVars, historyVars>>

\* for x in train_dist_dataset: distributed_train_step(x) is entered and
\* experimental_run_v2 starts train_step on every replica.
DispatchTrainStep ==
    /\ pc = "train"
    /\ train_iter # <<>>
    /\ dataset_inputs' = distribute_batch(Head(train_iter))
    /\ train_iter' = Tail(train_iter)
    /\ rpc' = [r \in Replicas |-> "run"]
    /\ replica_predictions' = [r \in Replicas |-> <<>>]
    /\ replica_loss' = [r \in Replicas |-> None]
    /\ gradients' = [r \in Replicas |-> None]
    /\ all_reduced' = None
    /\ step_start' = [model |-> model, optimizer |-> optimizer]
    /\ step_batch' = Head(train_iter)
    /\ pc' = "step"
    /\ UNCHANGED <<frozenVars, epoch, test_iter, total_loss, num_batches,
                   train_loss, mirroredVars, metricVars, outputVars, steps_done>>

\* train_step on replica r up to optimizer.apply_gradients: the forward pass
\* under the tape, compute_loss, tape.gradient.
ReplicaForwardBackward(r) ==
    /\ pc = "step"
    /\ rpc[r] = "run"
    /\ LET inputs == dataset_inputs[r]
           y_pred == model_call(model[r], images_of(inputs))
       IN  /\ replica_predictions' = [replica_predictions EXCEPT ![r] = y_pred]
           /\ replica_loss' =
                  [replica_loss EXCEPT ![r] = compute_loss(labels_of(inputs), y_pred)]
           /\ gradients' = [gradients EXCEPT ![r] = tape_gradient(model[r], inputs)]
    /\ rpc' = [rpc EXCEPT ![r] = "sync"]
    /\ UNCHANGED <<frozenVars, driverVars, dataset_inputs, all_reduced,
                   mirroredVars, metricVars, outputVars, historyVars>>

\* The same, the float32 arithmetic of replica r overflowing on the way: the
\* loss and its gradient come out NaN. Nothing in train_step looks at them.
ReplicaDiverge(r) ==
    /\ pc = "step"
    /\ rpc[r] = "run"
    /\ dataset_inputs[r] # <<>>
    /\ replica_predictions' =
           [replica_predictions EXCEPT ![r] = [i \in 1..Len(dataset_inputs[r]) |-> NaN]]
    /\ replica_loss' = [replica_loss EXCEPT ![r] = NaN]
    /\ gradients' = [gradients EXCEPT ![r] = NaN]
    /\ rpc' = [rpc EXCEPT ![r] = "sync"]
    /\ UNCHANGED <<frozenVars, driverVars, dataset_inputs, all_reduced,
                   mirroredVars, metricVars, outputVars, historyVars>>

\* An op of train_step raises on replica r before apply_gradients is reached
\* (an InvalidArgumentError of the forward pass or of the loss).
ReplicaRaise(r) ==
    /\ pc = "step"
    /\ rpc[r] = "run"
    /\ rpc' = [rpc EXCEPT ![r] = "raised"]
    /\ UNCHANGED <<frozenVars, driverVars, dataset_inputs, replica_predictions,
                   replica_loss, gradients, all_reduced, mirroredVars,
                   metricVars, outputVars, historyVars>>

\* Inside optimizer.apply_gradients: the gradients of the replicas are
\* all-reduced and every replica that waits for the result goes on.
AllReduce ==
    /\ pc = "step"
    /\ all_reduced = None
    /\ ready_to_reduce
    /\ all_reduced' =
           all_reduce_sum([r \in Replicas |->
                              IF gradients[r] = None THEN Zero ELSE gradients[r]])
    /\ rpc' = [r \in Replicas |-> IF rpc[r] = "sync" THEN "apply" ELSE rpc[r]]
    /\ UNCHANGED <<frozenVars, driverVars, dataset_inputs, replica_predictions,
                   replica_loss, gradients, mirroredVars, metricVars,
                   outputVars, historyVars>>

\* The rest of train_step on replica r: the update of its copy of the
\* variable and of the optimizer's slots, then train_accuracy.update_state.
ReplicaApply(r) ==
    /\ pc = "step"
    /\ rpc[r] = "apply"
    /\ LET updated == apply_gradients(gradient_applied(r), model[r], optimizer[r])
       IN  /\ model' = [model EXCEPT ![r] = updated.var]
           /\ optimizer' = [optimizer EXCEPT ![r] = updated.opt]
    /\ train_accuracy' =
           accuracy_update_state(train_accuracy, labels_of(dataset_inputs[r]),
                                 replica_predictions[r])
    /\ rpc' = [rpc EXCEPT ![r] = "done"]
    /\ UNCHANGED <<frozenVars, driverVars, dataset_inputs, replica_predictions,
                   replica_loss, gradients, all_reduced, test_loss,
                   test_accuracy, outputVars, historyVars>>

\* distributed_train_step returns strategy.reduce(SUM, per_replica_losses);
\* total_loss += ...; num_batches += 1.
TrainStepReturn ==
    /\ pc = "step"
    /\ \A r \in Replicas : rpc[r] = "done"
    /\ total_loss' = Plus(total_loss, strategy_reduce_SUM(replica_loss))
    /\ num_batches' = num_batches + 1
    /\ steps_done' = steps_done + 1
    /\ pc' = "train"
    /\ UNCHANGED <<frozenVars, epoch, train_iter, test_iter, train_loss,
                   stepVars, mirroredVars, metricVars, outputVars, step_start,
                   step_batch>>

\* The error a replica raised leaves distributed_train_step and, nothing
\* catching it, the loop.
TrainStepAbort ==
    /\ pc = "step"
    /\ \E r \in Replicas : rpc[r] = "raised"
    /\ pc' = "error"
    /\ UNCHANGED <<frozenVars, epoch, train_iter, test_iter, total_loss,
                   num_batches, train_loss, stepVars, mirroredVars, metricVars,
                   outputVars, historyVars>>

\* train_loss = total_loss / num_batches; the iteration over
\* test_dist_dataset starts.
EndTrainLoop ==
    /\ pc = "train"
    /\ train_iter = <<>>
    /\ train_loss' = (IF num_batches = 0 THEN NaN
                      ELSE Times(total_loss, Scalar(1, num_batches)))
    /\ test_iter' = batch(test_examples, GLOBAL_BATCH_SIZE)
    /\ pc' = "test"
    /\ UNCHANGED <<frozenVars, epoch, train_iter, total_loss, num_batches,
                   stepVars, mirroredVars, metricVars, outputVars, historyVars>>

\* for x in test_dist_dataset: distributed_test_step(x).
TestStep ==
    /\ pc = "test"
    /\ test_iter # <<>>
    /\ LET after == test_steps(num_replicas_in_sync, distribute_batch(Head(test_iter)))
       IN  /\ test_loss' = after.loss
           /\ test_accuracy' = after.accuracy
    /\ test_iter' = Tail(test_iter)
    /\ UNCHANGED <<frozenVars, pc, epoch, train_iter, total_loss, num_batches,
                   train_loss, stepVars, mirroredVars, train_accuracy,
                   outputVars, historyVars>>

checkpoint_due_always(e) == TRUE

\* if epoch % 2 == 0: the epochs at whose end checkpoint.save is called.
checkpoint_due(e) == e % 2 = 0

\* The end of the epoch: checkpoint.save every other epoch, the line printed,
\* the metrics reset.
EndEpoch ==
    /\ pc = "test"
    /\ test_iter = <<>>
    /\ checkpoints' =
           (IF checkpoint_due(epoch)
            THEN Append(checkpoints, [model |-> model[1], optimizer |-> optimizer[1]])
            ELSE checkpoints)
    /\ printed' =
           Append(printed,
                  [epoch |-> epoch + 1,
                   loss |-> train_loss,
                   accuracy |-> Times(result(train_accuracy), Scalar(100, 1)),
                   test_loss |-> result(test_loss),
                   test_accuracy |-> Times(result(test_accuracy), Scalar(100, 1))])
    /\ test_loss' = reset_states(test_loss)
    /\ train_accuracy' = reset_states(train_accuracy)
    /\ test_accuracy' = reset_states(test_accuracy)
    /\ epoch' = epoch + 1
    /\ pc' = (IF epoch + 1 < EPOCHS THEN "epoch" ELSE "done")
    /\ UNCHANGED <<frozenVars, train_iter, test_iter, total_loss, num_batches,
                   train_loss, stepVars, mirroredVars, historyVars>>

Next ==
    \/ BeginEpoch
    \/ DispatchTrainStep
    \/ \E r \in Replicas : ReplicaForwardBackward(r)
    \/ \E r \in Replicas : ReplicaDiverge(r)
    \/ \E r \in Replicas : ReplicaRaise(r)
    \/ AllReduce
    \/ \E r \in Replicas : ReplicaApply(r)
    \/ TrainStepReturn
    \/ TrainStepAbort
    \/ EndTrainLoop
    \/ TestStep
    \/ EndEpoch

Spec == Init /\ [][Next]_vars

\* ------------------------------------------------------------- claims on Spec
AllDone == \A r \in Replicas : rpc[r] = "done"

SummedGradients == reduce_sum([r \in Replicas |-> gradients[r]])

\* C3: a training step the R replicas ran on a full global batch without a NaN
\* leaves every replica's copy of the variable and of the optimizer's state
\* equal to what train_step, run once without distribution on the same batch
\* from the same starting variable and optimizer state, produces.
C3_ReplicatedStepEqualsSingleReplicaStep ==
    (/\ AllDone
     /\ Len(step_batch) = GLOBAL_BATCH_SIZE
     /\ \A r \in Replicas : ~IsNaN(replica_loss[r]))
    => LET single == train_step(step_start.model[1], step_start.optimizer[1],
                                step_batch)
       IN  \A r \in Replicas :
               /\ model[r] = single.var
               /\ optimizer[r] = single.opt

\* Two replicas have completed a step on a full batch, their gradients
\* differing, and the variable has moved.
C3_Witness ==
    /\ num_replicas_in_sync = 2
    /\ pc = "step"
    /\ AllDone
    /\ Len(step_batch) = GLOBAL_BATCH_SIZE
    /\ ~IsNaN(replica_loss[1]) /\ ~IsNaN(replica_loss[2])
    /\ gradients[1] # gradients[2]
    /\ model[1] # step_start.model[1]

BetweenSteps == pc \in {"epoch", "train", "test", "done"}

\* C4: between training steps, after any number of them, every replica holds
\* the same value of the variable and the same optimizer state.
C4_ReplicasMirrored ==
    BetweenSteps =>
        \A r, s \in Replicas :
            /\ model[r] = model[s]
            /\ optimizer[r] = optimizer[s]

\* Two replicas after their second step, in which their local gradients
\* differed and the variable moved.
C4_Witness ==
    /\ num_replicas_in_sync = 2
    /\ pc = "train"
    /\ steps_done >= 2
    /\ gradients[1] # gradients[2]
    /\ model[1] # step_start.model[1]
    /\ model[1] = model[2]

\* C5: every replica's copy is updated once per global batch (the optimizer's
\* iterations count the steps, not the replicas), and the update is the one
\* apply_gradients makes of the sum of the replicas' gradients.
C5_OneUpdatePerBatchWithSummedGradients ==
    \A r \in Replicas :
        /\ optimizer[r].iterations =
               steps_done + (IF pc = "step" /\ rpc[r] = "done" THEN 1 ELSE 0)
        /\ rpc[r] = "done" =>
               LET updated == apply_gradients(SummedGradients, step_start.model[r],
                                              step_start.optimizer[r])
               IN  /\ model[r] = updated.var
                   /\ optimizer[r] = updated.opt

\* Two replicas have both applied the update of a second step whose summed
\* gradient is not zero, so that sum and mean differ.
C5_Witness ==
    /\ num_replicas_in_sync = 2
    /\ pc = "step"
    /\ AllDone
    /\ steps_done >= 1
    /\ ~IsNaN(SummedGradients)
    /\ SummedGradients # Zero
    /\ optimizer[1].iterations = steps_done + 1
    /\ optimizer[2].iterations = steps_done + 1

\* C6: within a step no replica's copy is updated before every replica has
\* handed in its gradient, and no replica runs the forward pass of a step
\* while the update of the step before is missing on some replica.
C6_ReductionIsBarrier ==
    /\ (pc = "step" /\ \E r \in Replicas : rpc[r] \in {"apply", "done"})
       => /\ \A s \in Replicas : rpc[s] \in {"apply", "done"} /\ gradients[s] # None
          /\ all_reduced = SummedGradients
    /\ (pc = "step" /\ \E r \in Replicas : rpc[r] = "run")
       => \A s \in Replicas :
              /\ optimizer[s].iterations = steps_done
              /\ model[s] = step_start.model[s]

\* In a later step one replica has applied the update while the other, its
\* gradient handed in, has not yet.
C6_Witness ==
    /\ num_replicas_in_sync = 2
    /\ pc = "step"
    /\ steps_done >= 1
    /\ rpc[1] = "done"
    /\ rpc[2] = "apply"
    /\ optimizer[1].iterations = optimizer[2].iterations + 1

SomeRaised == \E r \in Replicas : rpc[r] = "raised"

C8_NaNLossUpdatesNothingAndFails ==
    (\E r \in Replicas : IsNaN(replica_loss[r]))
    => /\ model = step_start.model
       /\ pc \in {"step", "error"}

\* The average per-example loss of a batch under the variable w.
batch_average_loss(w, inputs) ==
    Times(reduce_sum(loss_object(labels_of(inputs), model_call(w, images_of(inputs)))),
          Scalar(1, Len(inputs)))

\* C20: for every global batch of the training dataset, the short final one
\* included, the sum of the replicas' scaled losses distributed_train_step
\* returns is the average per-example loss of the examples of that batch.
C20_StepLossIsBatchAverage ==
    (/\ AllDone
     /\ step_batch # <<>>
     /\ \A r \in Replicas : ~IsNaN(replica_loss[r]))
    => strategy_reduce_SUM(replica_loss) =
           batch_average_loss(step_start.model[1], step_batch)

\* C14: in every epoch the three accumulators hold the updates of that epoch
\* only (train_accuracy one per training example taken so far, test_loss and
\* test_accuracy one per test example taken so far, nothing before the epoch's
\* first update), and the line of the epoch is printed from their result()
\* after the epoch's last update and before they are reset.
C14_MetricsAggregateOneEpoch ==
    [][/\ pc \in {"epoch", "done"} =>
              /\ train_accuracy = EmptyMetric
              /\ test_loss = EmptyMetric
              /\ test_accuracy = EmptyMetric
       /\ pc = "train" =>
              /\ train_accuracy.count =
                     Len(train_examples) - CountExamples(train_iter)
              /\ test_loss = EmptyMetric
              /\ test_accuracy = EmptyMetric
       /\ pc = "test" =>
              /\ train_accuracy.count = Len(train_examples)
              /\ test_loss.count = Len(test_examples) - CountExamples(test_iter)
              /\ test_accuracy.count = Len(test_examples) - CountExamples(test_iter)
       /\ printed' # printed =>
              /\ pc = "test"
              /\ test_iter = <<>>
              /\ printed' =
                     Append(printed,
                            [epoch |-> epoch + 1,
                             loss |-> train_loss,
                             accuracy |-> Times(result(train_accuracy), Scalar(100, 1)),
                             test_loss |-> result(test_loss),
                             test_accuracy |->
                                 Times(result(test_accuracy), Scalar(100, 1))])
              /\ train_accuracy' = EmptyMetric
              /\ test_loss' = EmptyMetric
              /\ test_accuracy' = EmptyMetric
      ]_vars

\* The second epoch is about to print its line: the first line is printed and
\* the accumulators hold the second epoch's updates.
C14_Witness ==
    /\ epoch = 1
    /\ pc = "test"
    /\ test_iter = <<>>
    /\ Len(printed) = 1
    /\ train_accuracy.count = Len(train_examples)
    /\ test_loss.count = Len(test_examples)
    /\ test_loss.total # Zero

\* ------------------------------------------------------------- more claims on SpecLoss
GlobalAverageLoss ==
    Times(reduce_sum(loss_object(Flatten(labels), Flatten(predictions))),
          Scalar(1, CountExamples(labels)))

EqualSubBatches ==
    \A r, s \in Replicas : Len(labels[r]) = Len(labels[s]) /\ Len(labels[r]) > 0

C16_MeanOfScaledLossesIsAverageOverR ==
    (lossPath = "custom" /\ loss_metric.count # 0)
    => /\ loss_metric.total = strategy_reduce_SUM(per_replica_losses)
       /\ loss_metric.count = num_replicas_in_sync
       /\ Times(result(loss_metric), Scalar(num_replicas_in_sync, 1)) = GlobalAverageLoss
       /\ labels = <<(<<2, 3>>), (<<4, 5>>)>> =>
              /\ loss_metric.total = Scalar(7, 2)
              /\ loss_metric.count = 2
              /\ result(loss_metric) = Scalar(7, 4)

\* The cell's example: two replicas, losses [2,3] and [4,5], tracked.
C16_Witness ==
    /\ lossPath = "custom"
    /\ labels = <<(<<2, 3>>), (<<4, 5>>)>>
    /\ GLOBAL_BATCH_SIZE = 4
    /\ loss_metric.count = 2

\* ------------------------------------------------------------- SpecFixedSteps
\* The loop of the section "Using iterators": EPOCHS times, a new iterator of
\* train_dist_dataset and a fixed number of training steps on its first
\* batches. It runs after the epoch loop, whose variables it goes on using.
StepsPerRequest == MaxSteps

\* Some of the orders the shuffle can draw of n elements: as they are, reversed
\* and rotated by one.
IterOrders(n) ==
    {[j \in 1..n |-> j], [j \in 1..n |-> n + 1 - j], [j \in 1..n |-> 1 + (j % n)]}

\* train_accuracy after the replicas 1..r have run update_state in train_step.
RECURSIVE train_accuracy_after(_, _)
train_accuracy_after(r, per_replica) ==
    IF r = 0 THEN train_accuracy
    ELSE accuracy_update_state(train_accuracy_after(r - 1, per_replica),
                               labels_of(per_replica[r]),
                               model_call(model[r], images_of(per_replica[r])))

\* distributed_train_step(dataset_inputs) as one step: what it returns and
\* what it leaves in the mirrored variable, the optimizer and train_accuracy.
distributed_train_step(global_batch) ==
    LET per_replica == distribute_batch(global_batch)
        losses == [r \in Replicas |->
                      compute_loss(labels_of(per_replica[r]),
                                   model_call(model[r], images_of(per_replica[r])))]
        grads == [r \in Replicas |-> tape_gradient(model[r], per_replica[r])]
        reduced == all_reduce_sum(grads)
        updated == [r \in Replicas |-> apply_gradients(reduced, model[r], optimizer[r])]
    IN  [loss |-> strategy_reduce_SUM(losses),
         model |-> [r \in Replicas |-> updated[r].var],
         optimizer |-> [r \in Replicas |-> updated[r].opt],
         train_accuracy |-> train_accuracy_after(num_replicas_in_sync, per_replica)]

InitFixedSteps ==
    /\ LossOff
    /\ InputOff
    /\ num_replicas_in_sync \in 1..MaxReplicas
    /\ GLOBAL_BATCH_SIZE = BATCH_SIZE_PER_REPLICA * num_replicas_in_sync
    /\ \E n \in {GLOBAL_BATCH_SIZE * StepsPerRequest,
                 GLOBAL_BATCH_SIZE * StepsPerRequest + 1,
                 GLOBAL_BATCH_SIZE * (StepsPerRequest + 1)} :
           train_examples = [k \in 1..n |-> TrainExample(k)]
    /\ test_examples = <<>>
    /\ pc = "fs_outer"
    /\ epoch = EPOCHS - 1
    /\ train_iter = <<>>
    /\ test_iter = <<>>
    /\ dataset_inputs = [r \in Replicas |-> <<>>]
    /\ rpc = [r \in Replicas |-> "done"]
    /\ replica_predictions = [r \in Replicas |-> <<>>]
    /\ replica_loss = [r \in Replicas |-> None]
    /\ gradients = [r \in Replicas |-> None]
    /\ all_reduced = None
    /\ \E w \in InitialWeights : model = [r \in Replicas |-> w]
    /\ optimizer = [r \in Replicas |-> [iterations |-> 0, m |-> Zero]]
    /\ total_loss = Zero
    /\ num_batches = 0
    /\ train_loss = None
    /\ train_accuracy = EmptyMetric
    /\ test_loss = EmptyMetric
    /\ test_accuracy = EmptyMetric
    /\ checkpoints = <<>>
    /\ printed = <<>>
    /\ step_start = [model |-> model, optimizer |-> optimizer]
    /\ step_batch = <<>>
    /\ steps_done = 0
    /\ FixedOff
    /\ ExceptFixedOff

fixedFrozenVars == <<num_replicas_in_sync, GLOBAL_BATCH_SIZE, lossVars, inputVars,
                     dataVars, epoch, test_iter, train_loss, stepVars, test_loss,
                     test_accuracy, checkpoints, step_start, step_batch,
                     exceptFixedVars>>

\* for _ in range(EPOCHS): total_loss = 0.0; num_batches = 0;
\* train_iter = iter(train_dist_dataset).
FixedBeginRequest ==
    /\ pc = "fs_outer"
    /\ outer < EPOCHS
    /\ total_loss' = Zero
    /\ num_batches' = 0
    /\ \E order \in IterOrders(Len(train_examples)) :
           train_iter' = batch(shuffle(train_examples, order), GLOBAL_BATCH_SIZE)
    /\ iter_count' = iter_count + 1
    /\ iter_position' = 0
    /\ inner' = 0
    /\ pc' = "fs_inner"
    /\ UNCHANGED <<fixedFrozenVars, mirroredVars, train_accuracy, printed,
                   steps_done, outer, consumed>>

\* for _ in range(10): total_loss += distributed_train_step(next(train_iter));
\* num_batches += 1.
FixedTrainStep ==
    /\ pc = "fs_inner"
    /\ inner < StepsPerRequest
    /\ train_iter # <<>>
    /\ LET step == distributed_train_step(Head(train_iter))
       IN  /\ total_loss' = Plus(total_loss, step.loss)
           /\ model' = step.model
           /\ optimizer' = step.optimizer
           /\ train_accuracy' = step.train_accuracy
    /\ consumed' = Append(consumed, [iterator |-> iter_count,
                                     position |-> iter_position + 1,
                                     batch |-> Head(train_iter)])
    /\ train_iter' = Tail(train_iter)
    /\ iter_position' = iter_position + 1
    /\ num_batches' = num_batches + 1
    /\ steps_done' = steps_done + 1
    /\ inner' = inner + 1
    /\ UNCHANGED <<fixedFrozenVars, pc, printed, outer, iter_count>>

\* average_train_loss = total_loss / num_batches; print(...);
\* train_accuracy.reset_states().
FixedEndRequest ==
    /\ pc = "fs_inner"
    /\ inner = StepsPerRequest
    /\ printed' =
           Append(printed,
                  [epoch |-> epoch + 1,
                   loss |-> Times(total_loss, Scalar(1, num_batches)),
                   accuracy |-> Times(result(train_accuracy), Scalar(100, 1))])
    /\ train_accuracy' = reset_states(train_accuracy)
    /\ outer' = outer + 1
    /\ pc' = (IF outer + 1 < EPOCHS THEN "fs_outer" ELSE "fs_done")
    /\ UNCHANGED <<fixedFrozenVars, mirroredVars, train_iter, total_loss,
                   num_batches, steps_done, inner, iter_count, iter_position,
                   consumed>>

NextFixedSteps ==
    \/ FixedBeginRequest
    \/ FixedTrainStep
    \/ FixedEndRequest

SpecFixedSteps == InitFixedSteps /\ [][NextFixedSteps]_vars

\* C11: the steps of a request after the first go on where the request
\* before stopped: the k-th step of the loop is given the k-th batch of the
\* one iteration of the dataset, none twice and none left out.
C11_RequestsContinueTheIteration ==
    \A k \in 1..Len(consumed) :
        /\ consumed[k].iterator = 1
        /\ consumed[k].position = k

\* ------------------------------------------------------------- SpecBasics
\* "Custom training: basics": the linear Model, its loss, train() and the
\* loop that runs train() over the training data.
TRUE_W == Scalar(3, 1)

TRUE_b == Scalar(2, 1)

learning_rate == Scalar(1, 10)

BasicsEpochs == MaxEpochs

Model_call_without_bias(w, bias, x) == Times(w, x)

\* Model.__call__(x): self.W * x + self.b.
Model_call(w, bias, x) == Plus(Times(w, x), bias)

\* model(inputs) on a vector of inputs.
Model_call_all(w, bias, xs) == [i \in 1..Len(xs) |-> Model_call(w, bias, xs[i])]

\* loss(predicted_y, target_y): tf.reduce_mean(tf.square(predicted_y - target_y)).
loss(predicted_y, target_y) ==
    reduce_mean([i \in 1..Len(predicted_y) |->
                    Times(Minus(predicted_y[i], target_y[i]),
                          Minus(predicted_y[i], target_y[i]))])

\* train(model, inputs, outputs, learning_rate): the gradients of the loss in
\* W and b, and the two assign_sub.
train(w, bias, xs, ys, rate) ==
    LET predicted_y == Model_call_all(w, bias, xs)
        residual == [i \in 1..Len(xs) |->
                        Times(Scalar(2, 1), Minus(predicted_y[i], ys[i]))]
        dW == reduce_mean([i \in 1..Len(xs) |-> Times(residual[i], xs[i])])
        db == reduce_mean(residual)
    IN  [W |-> Minus(w, Times(rate, dW)), b |-> Minus(bias, Times(rate, db))]

\* The values the random inputs and the random noise are drawn from.
BasicsValues == {Scalar(-1, 1), Scalar(1, 1), Scalar(2, 1)}

NoiseValues == {Scalar(-1, 1), Zero, Scalar(1, 1)}

\* The arguments the model is called with.
CallValues == {Zero, Scalar(-1, 1), Scalar(3, 1)}

\* The state after model = Model() and the cell that synthesizes the data.
InitBasics ==
    /\ LossOff
    /\ InputOff
    /\ TrainOff
    /\ num_replicas_in_sync = 1
    /\ GLOBAL_BATCH_SIZE = BATCH_SIZE_PER_REPLICA
    /\ ExceptBasicsOff
    /\ Model_W = Scalar(5, 1)
    /\ Model_b = Zero
    /\ \E n \in 1..MaxPerReplica :
           /\ basics_inputs \in [1..n -> BasicsValues]
           /\ \E noise \in [1..n -> NoiseValues] :
                  basics_outputs =
                      [i \in 1..n |->
                          Plus(Plus(Times(basics_inputs[i], TRUE_W), TRUE_b), noise[i])]
    /\ basics_epoch = 0
    /\ Ws = <<>>
    /\ bs = <<>>
    /\ last_call = <<>>

basicsFrozenVars == <<num_replicas_in_sync, GLOBAL_BATCH_SIZE, lossVars, inputVars,
                      trainVars, exceptBasicsVars, basics_inputs, basics_outputs>>

\* model(x).
CallModel(x) ==
    /\ last_call' = [x |-> x, y |-> Model_call(Model_W, Model_b, x)]
    /\ UNCHANGED <<basicsFrozenVars, Model_W, Model_b, basics_epoch, Ws, bs>>

\* One turn of for epoch in epochs: the histories appended to, then train().
TrainEpoch ==
    /\ basics_epoch < BasicsEpochs
    /\ Ws' = Append(Ws, Model_W)
    /\ bs' = Append(bs, Model_b)
    /\ LET trained == train(Model_W, Model_b, basics_inputs, basics_outputs,
                            learning_rate)
       IN  /\ Model_W' = trained.W
           /\ Model_b' = trained.b
    /\ basics_epoch' = basics_epoch + 1
    /\ last_call' = <<>>
    /\ UNCHANGED basicsFrozenVars

NextBasics ==
    \/ \E x \in CallValues : CallModel(x)
    \/ TrainEpoch

SpecBasics == InitBasics /\ [][NextBasics]_vars

\* C19: a Model has W = 5 and b = 0 until train() has run, a call model(x)
\* returns W * x + b for the values W and b have when it is made, and
\* model(3.0) is 15.0 before any training.
C19_FreshModelIsFiveXPlusZero ==
    /\ basics_epoch = 0 => (Model_W = Scalar(5, 1) /\ Model_b = Zero)
    /\ last_call # <<>> =>
           /\ last_call.y = Plus(Times(Model_W, last_call.x), Model_b)
           /\ (basics_epoch = 0 /\ last_call.x = Scalar(3, 1)) =>
                  last_call.y = Scalar(15, 1)

\* The assert of the cell: the fresh model called with 3.0.
C19_Witness ==
    /\ basics_epoch = 0
    /\ last_call # <<>>
    /\ last_call.x = Scalar(3, 1)
    /\ last_call.y = Scalar(15, 1)

\* ------------------------------------------------------------- SpecFit
\* model.fit with a weights-only ModelCheckpoint callback, as the notebooks 06
\* and 27 run it, then tf.train.latest_checkpoint and load_weights. The
\* weights are known by the number of epochs that trained them.
RECURSIVE Digits(_)
Digits(n) == IF n < 10 THEN <<n>> ELSE Digits(n \div 10) \o <<n % 10>>

ZeroPad(digits, width) ==
    [i \in 1..(width - Len(digits)) |-> 0] \o digits

\* str.format of the epoch field of a file name template.
format_epoch(template, n) ==
    CASE template = "ckpt_{epoch}" -> Digits(n)
      [] template = "cp-{epoch:04d}.ckpt" -> ZeroPad(Digits(n), 4)
      [] OTHER -> <<>>

\* filepath.format(epoch=n): the template with its field filled in.
filepath(config, n) ==
    [template |-> config.filepath, epoch |-> format_epoch(config.filepath, n)]

\* The fit of notebook 27: a checkpoint named ckpt_{epoch} every epoch of 12.
Keras27 ==
    [filepath |-> "ckpt_{epoch}", period |-> 1, epochs |-> 12,
     save_before_fit |-> FALSE, use_latest |-> TRUE]

\* The first fit of notebook 06: one checkpoint name, every epoch of 10.
Training1 ==
    [filepath |-> "cp.ckpt", period |-> 1, epochs |-> 10,
     save_before_fit |-> FALSE, use_latest |-> FALSE]

\* The second fit of notebook 06: cp-{epoch:04d}.ckpt every 5 epochs of 50,
\* after a save_weights under the name of epoch 0.
Training2 ==
    [filepath |-> "cp-{epoch:04d}.ckpt", period |-> 5, epochs |-> 50,
     save_before_fit |-> TRUE, use_latest |-> TRUE]

NoName == <<>>

\* save_weights(name): the files of the name written (over the ones it had).
save_weights(dir, name, w) ==
    {e \in dir : e.name # name} \cup {[name |-> name, weights |-> w]}

Names(dir) == {e.name : e \in dir}

due_every_epoch(since, period) == TRUE

\* ModelCheckpoint.on_epoch_end: the save is due when period epochs have ended
\* since the last one.
due(since, period) == since >= period

RECURSIVE LexLess(_, _)
LexLess(s, t) ==
    IF s = <<>> THEN t # <<>>
    ELSE IF t = <<>> THEN FALSE
    ELSE IF Head(s) # Head(t) THEN Head(s) < Head(t)
    ELSE LexLess(Tail(s), Tail(t))

\* The name of the directory that sorts last.
LexLargest(dir) ==
    IF dir = {} THEN NoName
    ELSE CHOOSE n \in Names(dir) :
             \A o \in Names(dir) : o = n \/ LexLess(o.epoch, n.epoch)

latest_checkpoint_by_name(dir, state) == LexLargest(dir)

\* tf.train.latest_checkpoint(checkpoint_dir): the name the "checkpoint" state
\* file holds, when its files exist.
latest_checkpoint(dir, state) ==
    IF state \in Names(dir) THEN state ELSE NoName

\* model.load_weights(name).
load_weights(dir, name) == (CHOOSE e \in dir : e.name = name).weights

InitFit ==
    /\ LossOff
    /\ InputOff
    /\ TrainOff
    /\ num_replicas_in_sync = 1
    /\ GLOBAL_BATCH_SIZE = BATCH_SIZE_PER_REPLICA
    /\ ExceptFitOff
    /\ fit_config \in {Keras27, Training1, Training2}
    /\ fit_pc = "created"
    /\ fit_epoch = 0
    /\ epochs_since_last_save = 0
    /\ weights = 0
    /\ directory = {}
    /\ checkpoint_state = NoName
    /\ latest = NoName
    /\ loaded_weights = -1

fitFrozenVars == <<num_replicas_in_sync, GLOBAL_BATCH_SIZE, lossVars, inputVars,
                   trainVars, exceptFitVars, fit_config>>

\* model.save_weights(checkpoint_path.format(epoch=0)), where the notebook has
\* it, and model.fit entered.
FitBegin ==
    /\ fit_pc = "created"
    /\ IF fit_config.save_before_fit
       THEN /\ directory' = save_weights(directory, filepath(fit_config, 0), weights)
            /\ checkpoint_state' = filepath(fit_config, 0)
       ELSE UNCHANGED <<directory, checkpoint_state>>
    /\ fit_pc' = "train"
    /\ UNCHANGED <<fitFrozenVars, fit_epoch, epochs_since_last_save, weights,
                   latest, loaded_weights>>

\* The training steps of one epoch.
FitTrainEpoch ==
    /\ fit_pc = "train"
    /\ fit_epoch < fit_config.epochs
    /\ weights' = weights + 1
    /\ fit_pc' = "epoch_end"
    /\ UNCHANGED <<fitFrozenVars, fit_epoch, epochs_since_last_save, directory,
                   checkpoint_state, latest, loaded_weights>>

\* ModelCheckpoint.on_epoch_end(epoch): the counter, the save when it is due
\* under the name of epoch + 1; then the next epoch or the end of fit.
FitOnEpochEnd ==
    /\ fit_pc = "epoch_end"
    /\ IF due(epochs_since_last_save + 1, fit_config.period)
       THEN /\ epochs_since_last_save' = 0
            /\ directory' =
                   save_weights(directory, filepath(fit_config, fit_epoch + 1), weights)
            /\ checkpoint_state' = filepath(fit_config, fit_epoch + 1)
       ELSE /\ epochs_since_last_save' = epochs_since_last_save + 1
            /\ UNCHANGED <<directory, checkpoint_state>>
    /\ fit_epoch' = fit_epoch + 1
    /\ fit_pc' = (IF fit_epoch + 1 < fit_config.epochs THEN "train" ELSE "fitted")
    /\ UNCHANGED <<fitFrozenVars, weights, latest, loaded_weights>>

\* latest = tf.train.latest_checkpoint(checkpoint_dir); notebook 06's first
\* fit names checkpoint_path itself.
FitLatest ==
    /\ fit_pc = "fitted"
    /\ latest' = (IF fit_config.use_latest
                  THEN latest_checkpoint(directory, checkpoint_state)
                  ELSE filepath(fit_config, 0))
    /\ fit_pc' = "chosen"
    /\ UNCHANGED <<fitFrozenVars, fit_epoch, epochs_since_last_save, weights,
                   directory, checkpoint_state, loaded_weights>>

\* model.load_weights(latest).
FitLoadWeights ==
    /\ fit_pc = "chosen"
    /\ latest \in Names(directory)
    /\ loaded_weights' = load_weights(directory, latest)
    /\ fit_pc' = "loaded"
    /\ UNCHANGED <<fitFrozenVars, fit_epoch, epochs_since_last_save, weights,
                   directory, checkpoint_state, latest>>

NextFit ==
    \/ FitBegin
    \/ FitTrainEpoch
    \/ FitOnEpochEnd
    \/ FitLatest
    \/ FitLoadWeights

SpecFit == InitFit /\ [][NextFit]_vars

\* The checkpoint of epoch n, holding the weights epoch n ended with.
CheckpointOf(config, n) == [name |-> filepath(config, n), weights |-> n]

FitEnded == fit_pc \in {"fitted", "chosen", "loaded"}

\* C17: in the fit of notebook 27 the directory holds, after the callback of
\* epoch n has run, one checkpoint ckpt_k for every epoch k = 1..n with the
\* weights epoch k ended with; after fit, latest_checkpoint gives ckpt_12, the
\* one written last, though ckpt_9 is the name that sorts last, and
\* load_weights restores the weights of the last epoch.
C17_LatestIsLastWritten ==
    fit_config = Keras27 =>
        /\ directory = {CheckpointOf(Keras27, k) : k \in 1..fit_epoch}
        /\ Cardinality(Names(directory)) = fit_epoch
        /\ FitEnded =>
               /\ fit_epoch = 12
               /\ checkpoint_state = filepath(Keras27, 12)
               /\ LexLargest(directory) = filepath(Keras27, 9)
        /\ fit_pc \in {"chosen", "loaded"} => latest = filepath(Keras27, 12)
        /\ fit_pc = "loaded" => (loaded_weights = 12 /\ loaded_weights = weights)

\* Notebook 27's run after model.load_weights(latest_checkpoint(...)).
C17_Witness ==
    /\ fit_config = Keras27
    /\ fit_pc = "loaded"
    /\ Cardinality(directory) = 12
    /\ latest.epoch = <<1, 2>>
    /\ loaded_weights = 12

CheckpointAPIs == {"Checkpoint", "save_weights", "SavedModel"}

\* The key of the model's variable in the object graph: below the attribute
\* "model" of a tf.train.Checkpoint, at the root when the model itself is
\* what is saved.
kernel_key(api) == IF api = "Checkpoint" THEN <<"model", "kernel">> ELSE <<"kernel">>

\* The keys of the optimizer's variables, (root).optimizer.* in both graphs.
iter_key == <<"optimizer", "iter">>

slot_key == <<"optimizer", "kernel", "m">>

checkpoint_save_weights_only(api, var, opt) ==
    {[key |-> kernel_key(api), value |-> var]}

\* What the save writes: the value of every variable reachable from the root,
\* under its key; of a mirrored variable the value of the first copy. The
\* optimizer is an attribute of the Checkpoint and of the compiled model.
checkpoint_save(api, var, opt) ==
    {[key |-> kernel_key(api), value |-> var],
     [key |-> iter_key, value |-> opt.iterations],
     [key |-> slot_key, value |-> opt.m]}

\* The value the checkpoint holds under `key`, or `otherwise` when it holds
\* none: a variable without a match keeps the value it was created with.
restored_value(saved, key, otherwise) ==
    IF \E e \in saved : e.key = key
    THEN (CHOOSE e \in saved : e.key = key).value
    ELSE otherwise

restore_assign_primary(copies, value) ==
    [r \in 1..Len(copies) |-> IF r = 1 THEN value ELSE copies[r]]

\* The restore assigns the value read to the variable: to every copy of a
\* mirrored one.
restore_assign(copies, value) == [r \in 1..Len(copies) |-> value]

fresh_optimizer == [iterations |-> 0, m |-> Zero]

\* new_model = create_model(); new_optimizer = Adam(); then
\* Checkpoint(optimizer=new_optimizer, model=new_model).restore(path), or
\* model.load_weights(path) on the compiled model, or load_model(path) followed
\* by compile(optimizer=Adam()), which puts a new optimizer in the place of
\* the loaded one. `copies` is the number of replicas of the scope the new
\* objects are created in, `w0` the value the initializer gives.
restore(saved, api, copies, w0) ==
    LET created == [r \in 1..copies |-> w0]
        opts == [r \in 1..copies |-> fresh_optimizer]
        kernel == restored_value(saved, kernel_key(api), w0)
        opt == [iterations |-> restored_value(saved, iter_key, 0),
                m |-> restored_value(saved, slot_key, Zero)]
    IN  [model |-> restore_assign(created, kernel),
         optimizer |-> IF api = "SavedModel" THEN opts
                       ELSE restore_assign(opts, opt)]

\* What one replica of a scope of `copies` replicas is given of a global batch.
inputs_of_scope(copies, global_batch) ==
    IF copies = 1 THEN <<global_batch>> ELSE distribute_batch(global_batch)

\* train_step on the new model and optimizer, on every replica of their scope.
new_train_step(copies, opts, global_batch) ==
    LET n == Len(copies)
        per_replica == inputs_of_scope(n, global_batch)
        grads == [r \in 1..n |-> tape_gradient(copies[r], per_replica[r])]
        reduced == all_reduce_sum(grads)
        updated == [r \in 1..n |-> apply_gradients(reduced, copies[r], opts[r])]
    IN  [model |-> [r \in 1..n |-> updated[r].var],
         optimizer |-> [r \in 1..n |-> updated[r].opt]]

\* The loss and accuracy metrics of evaluate after the replicas 1..r have
\* added their share of one batch.
RECURSIVE evaluate_replicas(_, _, _, _)
evaluate_replicas(copies, per_replica, r, metrics) ==
    IF r = 0 THEN metrics
    ELSE LET before == evaluate_replicas(copies, per_replica, r - 1, metrics)
             y_true == labels_of(per_replica[r])
             y_pred == model_call(copies[r], images_of(per_replica[r]))
         IN  [loss |-> mean_update_state(before.loss, loss_object(y_true, y_pred)),
              accuracy |-> accuracy_update_state(before.accuracy, y_true, y_pred)]

RECURSIVE evaluate_batches(_, _, _)
evaluate_batches(copies, batches, k) ==
    IF k = 0 THEN [loss |-> EmptyMetric, accuracy |-> EmptyMetric]
    ELSE evaluate_replicas(copies, inputs_of_scope(Len(copies), batches[k]),
                           Len(copies), evaluate_batches(copies, batches, k - 1))

\* model.evaluate(eval_dataset) / the loop of eval_step over test_dataset: the
\* loss and the accuracy over the batches of the dataset.
evaluate(copies, examples) ==
    LET batches == batch(examples, GLOBAL_BATCH_SIZE)
        metrics == evaluate_batches(copies, batches, Len(batches))
    IN  [loss |-> result(metrics.loss), accuracy |-> result(metrics.accuracy)]

\* The global batches the dataset can give a step.
GlobalBatches ==
    LET batches == batch(train_examples, GLOBAL_BATCH_SIZE)
    IN  {batches[k] : k \in 1..Len(batches)}

InitCkpt ==
    /\ LossOff
    /\ InputOff
    /\ ExceptCkptOff
    /\ num_replicas_in_sync \in 1..MaxReplicas
    /\ GLOBAL_BATCH_SIZE = BATCH_SIZE_PER_REPLICA * num_replicas_in_sync
    /\ \E n \in {MaxExamples - 1, MaxExamples} :
           train_examples = [k \in 1..n |-> TrainExample(k)]
    /\ test_examples = [k \in 1..(MaxPerReplica + 1) |-> TrainExample(k + 1)]
    /\ pc = "train"
    /\ epoch = 0
    /\ train_iter = <<>>
    /\ test_iter = <<>>
    /\ dataset_inputs = [r \in Replicas |-> <<>>]
    /\ rpc = [r \in Replicas |-> "done"]
    /\ replica_predictions = [r \in Replicas |-> <<>>]
    /\ replica_loss = [r \in Replicas |-> None]
    /\ gradients = [r \in Replicas |-> None]
    /\ all_reduced = None
    /\ \E w \in InitialWeights : model = [r \in Replicas |-> w]
    /\ optimizer = [r \in Replicas |-> fresh_optimizer]
    /\ total_loss = Zero
    /\ num_batches = 0
    /\ train_loss = None
    /\ train_accuracy = EmptyMetric
    /\ test_loss = EmptyMetric
    /\ test_accuracy = EmptyMetric
    /\ checkpoints = <<>>
    /\ printed = <<>>
    /\ step_start = [model |-> model, optimizer |-> optimizer]
    /\ step_batch = <<>>
    /\ steps_done = 0
    /\ ckpt_api \in CheckpointAPIs
    /\ ckpt_pc = "training"
    /\ saved_objects = {}
    /\ with_strategy = FALSE
    /\ new_model = <<>>
    /\ new_optimizer = <<>>
    /\ eval_saved = <<>>
    /\ eval_restored = <<>>

ckptFrozenVars == <<num_replicas_in_sync, GLOBAL_BATCH_SIZE, lossVars, inputVars,
                    dataVars, pc, epoch, train_iter, test_iter, total_loss,
                    num_batches, train_loss, stepVars, test_loss, test_accuracy,
                    checkpoints, printed, step_start, exceptCkptVars>>

\* One training step of the model under the strategy, before the save.
CkptTrainStep ==
    /\ ckpt_pc = "training"
    /\ steps_done < MaxSteps
    /\ \E global_batch \in GlobalBatches :
           LET stepped == distributed_train_step(global_batch)
           IN  /\ model' = stepped.model
               /\ optimizer' = stepped.optimizer
               /\ train_accuracy' = stepped.train_accuracy
               /\ step_batch' = global_batch
    /\ steps_done' = steps_done + 1
    /\ UNCHANGED <<ckptFrozenVars, ckptVars>>

\* checkpoint.save(checkpoint_prefix) / model.save_weights(path) /
\* model.save(path, save_format='tf'), between two training steps.
CkptSave ==
    /\ ckpt_pc = "training"
    /\ saved_objects' = checkpoint_save(ckpt_api, model[1], optimizer[1])
    /\ ckpt_pc' = "saved"
    /\ UNCHANGED <<ckptFrozenVars, mirroredVars, train_accuracy, step_batch,
                   steps_done, ckpt_api, with_strategy, new_model, new_optimizer,
                   eval_saved, eval_restored>>

\* The new model and optimizer are created, inside strategy.scope() or
\* outside of any, and the saved values are restored into them.
CkptRestore ==
    /\ ckpt_pc = "saved"
    /\ \E scope \in BOOLEAN, w0 \in InitialWeights :
           LET copies == IF scope THEN num_replicas_in_sync ELSE 1
               restored == restore(saved_objects, ckpt_api, copies, w0)
           IN  /\ with_strategy' = scope
               /\ new_model' = restored.model
               /\ new_optimizer' = restored.optimizer
    /\ ckpt_pc' = "restored"
    /\ UNCHANGED <<ckptFrozenVars, mirroredVars, train_accuracy, step_batch,
                   steps_done, ckpt_api, saved_objects, eval_saved, eval_restored>>

\* One more training step on the same global batch, by the model that was
\* saved and by the new one.
CkptStep ==
    /\ ckpt_pc = "restored"
    /\ \E global_batch \in GlobalBatches :
           LET continued == distributed_train_step(global_batch)
               resumed == new_train_step(new_model, new_optimizer, global_batch)
           IN  /\ model' = continued.model
               /\ optimizer' = continued.optimizer
               /\ train_accuracy' = continued.train_accuracy
               /\ new_model' = resumed.model
               /\ new_optimizer' = resumed.optimizer
               /\ step_batch' = global_batch
    /\ ckpt_pc' = "stepped"
    /\ UNCHANGED <<ckptFrozenVars, steps_done, ckpt_api, saved_objects,
                   with_strategy, eval_saved, eval_restored>>

\* evaluate on the same dataset, of the model that was saved and of the new
\* one.
CkptEvaluate ==
    /\ ckpt_pc = "restored"
    /\ eval_saved' = evaluate(model, test_examples)
    /\ eval_restored' = evaluate(new_model, test_examples)
    /\ ckpt_pc' = "evaluated"
    /\ UNCHANGED <<ckptFrozenVars, mirroredVars, train_accuracy, step_batch,
                   steps_done, ckpt_api, saved_objects, with_strategy, new_model,
                   new_optimizer>>

NextCkpt ==
    \/ CkptTrainStep
    \/ CkptSave
    \/ CkptRestore
    \/ CkptStep
    \/ CkptEvaluate

SpecCkpt == InitCkpt /\ [][NextCkpt]_vars

\* The replicas of the model that was saved hold one value.
SavedModelMirrored ==
    \A r \in Replicas : model[r] = model[1] /\ optimizer[r] = optimizer[1]

C13_RestoredWithOrWithoutStrategy ==
    ckpt_pc \in {"restored", "evaluated"} =>
        /\ Len(new_model) = IF with_strategy THEN num_replicas_in_sync ELSE 1
        /\ \A r \in 1..Len(new_model) :
               /\ new_model[r] = model[1]
               /\ [key |-> kernel_key(ckpt_api), value |-> new_model[r]]
                      \in saved_objects
        /\ ckpt_pc = "evaluated" => eval_restored = eval_saved

\* A trained model restored on two replicas and evaluated, some predictions
\* right and some wrong.
C13_Witness ==
    /\ ckpt_pc = "evaluated"
    /\ with_strategy
    /\ num_replicas_in_sync = 2
    /\ steps_done >= 1
    /\ eval_restored.loss # Zero
    /\ eval_restored = eval_saved

\* ------------------------------------------------------------- more claims on Spec
\* C22: while train_step runs on the replicas (from the dispatch of a step to
\* its return), no step of it changes the mirrored variable, the optimizer's
\* state or a metric: these change only after the step function has returned.
C22_ReplicaStepIsLocal ==
    [][(pc = "step" /\ pc' = "step") =>
           UNCHANGED <<model, optimizer, train_accuracy, test_loss, test_accuracy>>
      ]_vars

\* The variable and the optimizer's state as the running or last step's
\* all-reduced gradient leaves them.
AfterLastStep(r) ==
    apply_gradients(all_reduced, step_start.model[r], step_start.optimizer[r])

\* C25: a test step changes neither the variable nor the optimizer's state nor
\* anything of the training step; it adds the examples of its batch to
\* test_loss and test_accuracy. Through the test loop the variable and the
\* optimizer stay as the last training step left them, which is what the next
\* training step starts from.
C25_TestStepOnlyUpdatesTestMetrics ==
    [][/\ (pc = "test" /\ pc' = "test") =>
              /\ UNCHANGED <<model, optimizer, train_accuracy, total_loss,
                             num_batches, train_loss, stepVars, historyVars>>
              /\ test_loss'.count = test_loss.count + Len(Head(test_iter))
              /\ test_accuracy'.count = test_accuracy.count + Len(Head(test_iter))
       /\ (pc \in {"test", "epoch"} /\ AllDone) =>
              \A r \in Replicas :
                  /\ model[r] = AfterLastStep(r).var
                  /\ optimizer[r] = AfterLastStep(r).opt
       /\ (pc = "train" /\ pc' = "step") => step_start' = [model |-> model,
                                                           optimizer |-> optimizer]
      ]_vars

\* A training step of the second epoch is dispatched, the test steps of the
\* first epoch between it and the step before.
C25_Witness ==
    /\ epoch = 1
    /\ pc = "step"
    /\ Len(printed) = 1
    /\ printed[1].test_loss # Zero
    /\ steps_done >= 1
    /\ step_start.model[1] # Zero

\* What checkpoint.restore(tf.train.latest_checkpoint(checkpoint_dir)) gives a
\* new model and optimizer created without a strategy, `saved` being the
\* variable and optimizer state the latest checkpoint was written from.
restore_latest(saved, w0) ==
    restore(checkpoint_save("Checkpoint", saved.model, saved.optimizer),
            "Checkpoint", 1, w0)

\* EPOCHS of the notebook's run.
NOTEBOOK_EPOCHS == 10

\* The epochs of a run of n epochs at whose end a checkpoint is written.
checkpointed_epochs(n) == {e \in 0..(n - 1) : checkpoint_due(e)}

\* C23: the custom loop saves a checkpoint at the end of the 0-based epoch e
\* exactly when e is even, in the block that follows the epoch's last test
\* step and from the variable as the epoch left it, before the metrics are
\* reset; the k-th checkpoint is that of epoch 2(k - 1). With an even number
\* of epochs the last epoch writes none, and restoring the latest checkpoint
\* gives the variable and optimizer state of the end of epoch EPOCHS - 2. Of
\* the notebook's 10 epochs the checkpointed ones are 0, 2, 4, 6 and 8.
C23_CheckpointAfterEvenEpochs ==
    [][/\ Len(checkpoints) = (epoch + 1) \div 2
       /\ Len(checkpoints) = Cardinality(checkpointed_epochs(epoch))
       /\ checkpointed_epochs(NOTEBOOK_EPOCHS) = {0, 2, 4, 6, 8}
       /\ checkpoints' # checkpoints =>
              /\ epoch % 2 = 0
              /\ epoch = 2 * Len(checkpoints)
              /\ pc = "test" /\ test_iter = <<>> /\ train_iter = <<>>
              /\ checkpoints' =
                     Append(checkpoints,
                            [model |-> model[1], optimizer |-> optimizer[1]])
              /\ epoch' = epoch + 1
              /\ test_loss' = EmptyMetric
       /\ (epoch' # epoch /\ epoch % 2 = 0) => checkpoints' # checkpoints
       /\ (epoch' # epoch /\ epoch % 2 = 1) => checkpoints' = checkpoints
       /\ (pc' = "done" /\ pc # "done" /\ EPOCHS % 2 = 0) =>
              /\ epoch = EPOCHS - 1
              /\ checkpoints' = checkpoints
              /\ Len(checkpoints) = EPOCHS \div 2
              /\ \A w0 \in InitialWeights :
                     LET latest_saved == checkpoints[Len(checkpoints)]
                         restored == restore_latest(latest_saved, w0)
                     IN  /\ restored.model = <<latest_saved.model>>
                         /\ restored.optimizer = <<latest_saved.optimizer>>
      ]_vars

\* The loop has ended after an even number of epochs: the last of them has
\* moved the variable away from the latest checkpoint.
C23_Witness ==
    /\ pc = "done"
    /\ EPOCHS % 2 = 0
    /\ Len(checkpoints) = EPOCHS \div 2
    /\ model[1] # checkpoints[Len(checkpoints)].model
    /\ optimizer[1].iterations > checkpoints[Len(checkpoints)].optimizer.iterations

\* ------------------------------------------------------------- more claims on SpecFixedSteps
\* C24: the line the k-th outer iteration of the fixed-step loop prints
\* carries the epoch number k, and its loss is the mean of the losses of the
\* steps of that iteration.
C24_RequestReportsItsNumberAndMeanLoss ==
    /\ Len(printed) = outer
    /\ \A k \in 1..Len(printed) : printed[k].epoch = k
    /\ (pc = "fs_inner" /\ inner = StepsPerRequest) => num_batches = StepsPerRequest

\* ------------------------------------------------------------- SpecDrive
\* The epoch loop with the iteration over train_dist_dataset driven outside
\* the compiled step (for x in train_dist_dataset: distributed_train_step(x))
\* and inside it (distributed_train_epoch), a training step taken as one step.
DriveModes == {"outside", "inside"}

iterator_next_skipping(it) ==
    [value |-> Head(it), rest |-> IF Len(it) > 1 THEN Tail(Tail(it)) ELSE Tail(it)]

\* One turn of `for x in dataset`: the element the iterator gives and the
\* iterator after it.
iterator_next(it) == [value |-> Head(it), rest |-> Tail(it)]

InitDrive ==
    /\ LossOff
    /\ InputOff
    /\ ExceptDriveOff
    /\ num_replicas_in_sync \in 1..MaxReplicas
    /\ GLOBAL_BATCH_SIZE = BATCH_SIZE_PER_REPLICA * num_replicas_in_sync
    /\ \E n \in 1..MaxExamples : train_examples = [k \in 1..n |-> TrainExample(k)]
    /\ test_examples = [k \in 1..(MaxPerReplica + 1) |-> TrainExample(k + 1)]
    /\ pc = "dr_epoch"
    /\ epoch = 0
    /\ train_iter = <<>>
    /\ test_iter = <<>>
    /\ dataset_inputs = [r \in Replicas |-> <<>>]
    /\ rpc = [r \in Replicas |-> "done"]
    /\ replica_predictions = [r \in Replicas |-> <<>>]
    /\ replica_loss = [r \in Replicas |-> None]
    /\ gradients = [r \in Replicas |-> None]
    /\ all_reduced = None
    /\ \E w \in InitialWeights : model = [r \in Replicas |-> w]
    /\ optimizer = [r \in Replicas |-> fresh_optimizer]
    /\ total_loss = Zero
    /\ num_batches = 0
    /\ train_loss = None
    /\ train_accuracy = EmptyMetric
    /\ test_loss = EmptyMetric
    /\ test_accuracy = EmptyMetric
    /\ checkpoints = <<>>
    /\ printed = <<>>
    /\ step_start = [model |-> model, optimizer |-> optimizer]
    /\ step_batch = <<>>
    /\ steps_done = 0
    /\ drive_mode \in DriveModes
    /\ epoch_batches = <<>>
    /\ taken = <<>>
    /\ epochs_run = <<>>

driveFrozenVars == <<num_replicas_in_sync, GLOBAL_BATCH_SIZE, lossVars, inputVars,
                     dataVars, test_iter, stepVars, test_loss, test_accuracy,
                     step_start, exceptDriveVars, drive_mode>>

\* for epoch in range(EPOCHS): total_loss = 0.0; num_batches = 0 and the head
\* of `for x in train_dist_dataset` (outside), or the call of
\* distributed_train_epoch(train_dist_dataset) up to the head of
\* `for x in dataset` (inside): a new iteration of the dataset starts.
DriveBeginEpoch ==
    /\ pc = "dr_epoch"
    /\ epoch < EPOCHS
    /\ \E order \in IterOrders(Len(train_examples)) :
           LET batches == batch(shuffle(train_examples, order), GLOBAL_BATCH_SIZE)
           IN  /\ train_iter' = batches
               /\ epoch_batches' = batches
    /\ taken' = <<>>
    /\ total_loss' = Zero
    /\ num_batches' = 0
    /\ pc' = "dr_loop"
    /\ UNCHANGED <<driveFrozenVars, epoch, train_loss, mirroredVars,
                   train_accuracy, checkpoints, printed, step_batch, steps_done,
                   epochs_run>>

\* One turn of the loop over the dataset: the next global batch goes to the
\* training step, its reduced loss is added to total_loss, num_batches += 1.
DriveTrainStep ==
    /\ pc = "dr_loop"
    /\ train_iter # <<>>
    /\ LET x == iterator_next(train_iter)
           step == distributed_train_step(x.value)
       IN  /\ train_iter' = x.rest
           /\ taken' = Append(taken, x.value)
           /\ step_batch' = x.value
           /\ total_loss' = Plus(total_loss, step.loss)
           /\ model' = step.model
           /\ optimizer' = step.optimizer
           /\ train_accuracy' = step.train_accuracy
    /\ num_batches' = num_batches + 1
    /\ steps_done' = steps_done + 1
    /\ UNCHANGED <<driveFrozenVars, pc, epoch, train_loss, checkpoints, printed,
                   epoch_batches, epochs_run>>

\* The dataset is exhausted, iteration driven outside: train_loss, the test
\* loop, the checkpoint of every other epoch, the line and the resets.
OutsideEndEpoch ==
    /\ drive_mode = "outside"
    /\ pc = "dr_loop"
    /\ train_iter = <<>>
    /\ LET loss_of_epoch == IF num_batches = 0 THEN NaN
                            ELSE Times(total_loss, Scalar(1, num_batches))
           test_batches == batch(test_examples, GLOBAL_BATCH_SIZE)
           tested == evaluate_batches(model, test_batches, Len(test_batches))
       IN  /\ train_loss' = loss_of_epoch
           /\ printed' =
                  Append(printed,
                         [epoch |-> epoch + 1,
                          loss |-> loss_of_epoch,
                          accuracy |-> Times(result(train_accuracy), Scalar(100, 1)),
                          test_loss |-> result(tested.loss),
                          test_accuracy |->
                              Times(result(tested.accuracy), Scalar(100, 1))])
    /\ checkpoints' =
           (IF checkpoint_due(epoch)
            THEN Append(checkpoints, [model |-> model[1], optimizer |-> optimizer[1]])
            ELSE checkpoints)
    /\ train_accuracy' = reset_states(train_accuracy)
    /\ epochs_run' = Append(epochs_run, [batches |-> epoch_batches,
                                         steps |-> taken,
                                         num_batches |-> num_batches])
    /\ epoch' = epoch + 1
    /\ pc' = (IF epoch + 1 < EPOCHS THEN "dr_epoch" ELSE "dr_done")
    /\ UNCHANGED <<driveFrozenVars, train_iter, total_loss, num_batches,
                   mirroredVars, step_batch, steps_done, epoch_batches, taken>>

\* The dataset is exhausted, iteration driven inside: distributed_train_epoch
\* returns total_loss / num_batches, the line is printed, train_accuracy reset.
InsideEndEpoch ==
    /\ drive_mode = "inside"
    /\ pc = "dr_loop"
    /\ train_iter = <<>>
    /\ LET loss_of_epoch == IF num_batches = 0 THEN NaN
                            ELSE Times(total_loss, Scalar(1, num_batches))
       IN  /\ train_loss' = loss_of_epoch
           /\ printed' =
                  Append(printed,
                         [epoch |-> epoch + 1,
                          loss |-> loss_of_epoch,
                          accuracy |-> Times(result(train_accuracy), Scalar(100, 1))])
    /\ train_accuracy' = reset_states(train_accuracy)
    /\ epochs_run' = Append(epochs_run, [batches |-> epoch_batches,
                                         steps |-> taken,
                                         num_batches |-> num_batches])
    /\ epoch' = epoch + 1
    /\ pc' = (IF epoch + 1 < EPOCHS THEN "dr_epoch" ELSE "dr_done")
    /\ UNCHANGED <<driveFrozenVars, train_iter, total_loss, num_batches,
                   mirroredVars, checkpoints, step_batch, steps_done,
                   epoch_batches, taken>>

NextDrive ==
    \/ DriveBeginEpoch
    \/ DriveTrainStep
    \/ OutsideEndEpoch
    \/ InsideEndEpoch

SpecDrive == InitDrive /\ [][NextDrive]_vars

\* The number of global batches of the training dataset.
NumBatches == (Len(train_examples) + GLOBAL_BATCH_SIZE - 1) \div GLOBAL_BATCH_SIZE

\* seq holds every example of the training dataset exactly once.
IsOnePass(seq) ==
    /\ Len(seq) = Len(train_examples)
    /\ \A k \in 1..Len(train_examples) :
           Cardinality({j \in 1..Len(seq) : seq[j] = train_examples[k]}) =
           Cardinality({j \in 1..Len(train_examples) :
                           train_examples[j] = train_examples[k]})

\* C21: driven outside or inside the compiled function, the iteration gives
\* every training step the next global batch: the steps taken in an epoch and
\* the batches still to come are the batches of the epoch's iteration, in
\* order, which are one pass over the whole dataset; at the end of an epoch
\* every batch has gone to exactly one step and num_batches is the number of
\* batches of the dataset; the next epoch starts a new pass.
C21_EveryBatchToExactlyOneStep ==
    /\ pc = "dr_loop" =>
           /\ taken \o train_iter = epoch_batches
           /\ num_batches = Len(taken)
           /\ Len(epoch_batches) = NumBatches
           /\ IsOnePass(Flatten(epoch_batches))
    /\ Len(epochs_run) = epoch
    /\ \A e \in 1..Len(epochs_run) :
           /\ epochs_run[e].steps = epochs_run[e].batches
           /\ epochs_run[e].num_batches = NumBatches
           /\ IsOnePass(Flatten(epochs_run[e].steps))

\* Two epochs of more than one batch each have run, driven inside the
\* compiled function.
C21_Witness ==
    /\ drive_mode = "inside"
    /\ pc = "dr_done"
    /\ Len(epochs_run) = EPOCHS
    /\ EPOCHS >= 2
    /\ epochs_run[1].num_batches >= 2
    /\ epochs_run[2].steps = epochs_run[2].batches
    /\ epochs_run[2].steps # epochs_run[1].steps

\* ------------------------------------------------------------- SpecEstimator
\* "Create an Estimator from a Keras model": keras_estimator.train(input_fn,
\* steps=25) and keras_estimator.evaluate(input_fn, steps=10) on the input
\* function that batches the iris examples by 32 and repeats them.
TRAIN_STEPS == 25

EVAL_STEPS == 10

IRIS_BATCH == 32

\* Sizes of the split tfds.load gives: one example, one batch and one more,
\* and the 150 examples of iris.
IrisSizes == {1, 33, 150}

\* The global step the model directory holds when the Estimator is made: none
\* yet, or that of an earlier run of the cell.
InitialGlobalSteps == {0, TRAIN_STEPS}

iris_input_fn_once(examples) ==
    [batches |-> batch(examples, IRIS_BATCH), repeat |-> FALSE]

\* input_fn(): dataset.batch(32).repeat().
iris_input_fn(examples) ==
    [batches |-> batch(examples, IRIS_BATCH), repeat |-> TRUE]

\* The element an iterator of `dataset` gives after `pos` others, as a
\* sequence of one batch, or the empty sequence at the end of the input
\* (OutOfRangeError): a repeated dataset starts over after its last batch.
get_next(dataset, pos) ==
    IF dataset.repeat /\ Len(dataset.batches) > 0
    THEN <<dataset.batches[(pos % Len(dataset.batches)) + 1]>>
    ELSE IF pos < Len(dataset.batches) THEN <<dataset.batches[pos + 1]>>
    ELSE <<>>

InitEstimator ==
    /\ LossOff
    /\ InputOff
    /\ TrainOff
    /\ ExceptEstOff
    /\ num_replicas_in_sync = 1
    /\ GLOBAL_BATCH_SIZE = IRIS_BATCH
    /\ est_pc = "created"
    /\ \E n \in IrisSizes : est_dataset = [k \in 1..n |-> k]
    /\ global_step \in InitialGlobalSteps
    /\ last_step = 0
    /\ train_pos = 0
    /\ eval_pos = 0
    /\ eval_count = 0
    /\ eval_result = <<>>

estFrozenVars == <<num_replicas_in_sync, GLOBAL_BATCH_SIZE, lossVars, inputVars,
                   trainVars, exceptEstVars, est_dataset>>

\* keras_estimator.train(input_fn=input_fn, steps=25) is entered: input_fn is
\* called and the step to stop at is set steps beyond the global step.
EstTrainBegin ==
    /\ est_pc = "created"
    /\ last_step' = global_step + TRAIN_STEPS
    /\ train_pos' = 0
    /\ est_pc' = "training"
    /\ UNCHANGED <<estFrozenVars, global_step, eval_pos, eval_count, eval_result>>

\* One training step: the next batch of the input, the global step advanced.
EstTrainStep ==
    /\ est_pc = "training"
    /\ global_step < last_step
    /\ get_next(iris_input_fn(est_dataset), train_pos) # <<>>
    /\ train_pos' = train_pos + 1
    /\ global_step' = global_step + 1
    /\ UNCHANGED <<estFrozenVars, est_pc, last_step, eval_pos, eval_count,
                   eval_result>>

\* train returns: the step to stop at is reached, or the input has ended.
EstTrainEnd ==
    /\ est_pc = "training"
    /\ \/ global_step >= last_step
       \/ get_next(iris_input_fn(est_dataset), train_pos) = <<>>
    /\ est_pc' = "trained"
    /\ UNCHANGED <<estFrozenVars, global_step, last_step, train_pos, eval_pos,
                   eval_count, eval_result>>

\* keras_estimator.evaluate(input_fn=input_fn, steps=10) is entered: input_fn
\* is called again.
EstEvalBegin ==
    /\ est_pc = "trained"
    /\ eval_pos' = 0
    /\ eval_count' = 0
    /\ est_pc' = "evaluating"
    /\ UNCHANGED <<estFrozenVars, global_step, last_step, train_pos, eval_result>>

\* One evaluation step on the next batch of the input.
EstEvalStep ==
    /\ est_pc = "evaluating"
    /\ eval_count < EVAL_STEPS
    /\ get_next(iris_input_fn(est_dataset), eval_pos) # <<>>
    /\ eval_pos' = eval_pos + 1
    /\ eval_count' = eval_count + 1
    /\ UNCHANGED <<estFrozenVars, est_pc, global_step, last_step, train_pos,
                   eval_result>>

\* evaluate returns its result: the steps are made, or the input has ended.
EstEvalEnd ==
    /\ est_pc = "evaluating"
    /\ \/ eval_count >= EVAL_STEPS
       \/ get_next(iris_input_fn(est_dataset), eval_pos) = <<>>
    /\ eval_result' = [global_step |-> global_step, steps |-> eval_count]
    /\ est_pc' = "evaluated"
    /\ UNCHANGED <<estFrozenVars, global_step, last_step, train_pos, eval_pos,
                   eval_count>>

NextEstimator ==
    \/ EstTrainBegin
    \/ EstTrainStep
    \/ EstTrainEnd
    \/ EstEvalBegin
    \/ EstEvalStep
    \/ EstEvalEnd

SpecEstimator == InitEstimator /\ [][NextEstimator]_vars

\* The calls run to their end: a step that can be taken is taken.
SpecEstimatorFair == SpecEstimator /\ WF_vars(NextEstimator)

\* The calls and their counters, as far as they have come.
EstimatorStepsAsBudgeted ==
    /\ est_pc = "training" =>
           /\ global_step = (last_step - TRAIN_STEPS) + train_pos
           /\ train_pos <= TRAIN_STEPS
    /\ est_pc \in {"trained", "evaluating", "evaluated"} =>
           /\ train_pos = TRAIN_STEPS
           /\ global_step = last_step
    /\ est_pc = "evaluating" => (eval_pos = eval_count /\ eval_count <= EVAL_STEPS)
    /\ est_pc = "evaluated" =>
           /\ eval_pos = EVAL_STEPS
           /\ eval_result = [global_step |-> last_step, steps |-> EVAL_STEPS]
           /\ train_pos = TRAIN_STEPS

\* C26: with the repeating input function, train(steps=25) makes exactly 25
\* training steps, each on one batch of the input, and returns with the global
\* step 25 beyond where it started; evaluate(steps=10) takes exactly 10
\* batches and returns; both calls end, however few examples the dataset has.
C26_StepBudgetsEndTheCalls ==
    /\ []EstimatorStepsAsBudgeted
    /\ <>(est_pc = "evaluated")

\* The notebook's run: 150 examples, five batches a pass, the 25 training
\* steps going five times through them, evaluation stopped in its second pass.
C26_Witness ==
    /\ Len(est_dataset) = 150
    /\ Len(iris_input_fn(est_dataset).batches) = 5
    /\ est_pc = "evaluated"
    /\ global_step = 25
    /\ eval_result = [global_step |-> 25, steps |-> 10]

\* ------------------------------------------------------------- SpecSchedule
\* model.fit(train_dataset, epochs=12, callbacks=callbacks) of notebook 27 as
\* far as the learning rate goes: LearningRateScheduler(decay) sets the
\* optimizer's rate at the beginning of every epoch and PrintLR prints it at
\* the end; and decay called on its own.
FIT_EPOCHS == 12

MaxDecayEpoch == 12

\* The arguments decay is tried on.
DecayEpochs == (-2)..MaxDecayEpoch

decay_inclusive(e) ==
    IF e <= 3 THEN Scalar(1, 1000)
    ELSE IF e >= 3 /\ e <= 7 THEN Scalar(1, 10000)
    ELSE Scalar(1, 100000)

\* decay(epoch): 1e-3, 1e-4 and 1e-5 as exact fractions.
decay(e) ==
    IF e < 3 THEN Scalar(1, 1000)
    ELSE IF e >= 3 /\ e < 7 THEN Scalar(1, 10000)
    ELSE Scalar(1, 100000)

\* r / q scaled by powers of two into [1, 2): r / q * 2^e is the value.
RECURSIVE Normalize(_, _, _)
Normalize(r, q, e) ==
    IF r >= 2 * q THEN Normalize(r, 2 * q, e + 1)
    ELSE IF r < q THEN Normalize(2 * r, q, e - 1)
    ELSE [r |-> r, q |-> q, e |-> e]

\* The binary digits of r / q after the leading one, `bits` of them appended
\* to the significand m, and what remains.
RECURSIVE Significand(_, _, _, _)
Significand(m, rem, q, bits) ==
    IF bits = 0 THEN [m |-> m, rem |-> rem]
    ELSE IF 2 * rem >= q THEN Significand(2 * m + 1, 2 * rem - q, q, bits - 1)
    ELSE Significand(2 * m, 2 * rem, q, bits - 1)

\* The float32 a positive fraction is stored as in a float32 variable
\* (K.set_value(model.optimizer.lr, lr)): a significand of 24 bits and an
\* exponent, m * 2^e, the nearest to the fraction with ties to even;
\* `exact` tells whether it is the fraction itself.
to_float32(x) ==
    LET lead == Normalize(x.n, x.d, 0)
        s == Significand(1, lead.r - lead.q, lead.q, 23)
        up == \/ 2 * s.rem > lead.q
              \/ (2 * s.rem = lead.q /\ s.m % 2 = 1)
        m == IF up THEN s.m + 1 ELSE s.m
    IN  IF m = 16777216
        THEN [m |-> 8388608, e |-> lead.e - 22, exact |-> s.rem = 0]
        ELSE [m |-> m, e |-> lead.e - 23, exact |-> s.rem = 0]

\* The rate Adam() is made with: learning_rate=0.001.
adam_default_lr == to_float32(Scalar(1, 1000))

InitSchedule ==
    /\ LossOff
    /\ InputOff
    /\ TrainOff
    /\ ExceptLrOff
    /\ num_replicas_in_sync \in 1..MaxReplicas
    /\ GLOBAL_BATCH_SIZE = BATCH_SIZE_PER_REPLICA * num_replicas_in_sync
    /\ lr_pc = "epoch_begin"
    /\ lr_epoch = 0
    /\ optimizer_lr = adam_default_lr
    /\ lr_used = <<>>
    /\ lr_printed = <<>>
    /\ decay_call = <<>>

lrFrozenVars == <<num_replicas_in_sync, GLOBAL_BATCH_SIZE, lossVars, inputVars,
                  trainVars, exceptLrVars>>

\* decay(e) called on its own.
CallDecay(e) ==
    /\ decay_call' = [epoch |-> e, rate |-> decay(e)]
    /\ UNCHANGED <<lrFrozenVars, lr_pc, lr_epoch, optimizer_lr, lr_used, lr_printed>>

\* LearningRateScheduler.on_epoch_begin(epoch): the optimizer's rate is set
\* to decay(epoch).
LrEpochBegin ==
    /\ lr_pc = "epoch_begin"
    /\ lr_epoch < FIT_EPOCHS
    /\ optimizer_lr' = to_float32(decay(lr_epoch))
    /\ lr_pc' = "train"
    /\ UNCHANGED <<lrFrozenVars, lr_epoch, lr_used, lr_printed, decay_call>>

\* The training steps of the epoch, with the optimizer's rate as it is.
LrTrainEpoch ==
    /\ lr_pc = "train"
    /\ lr_used' = Append(lr_used, optimizer_lr)
    /\ lr_pc' = "epoch_end"
    /\ UNCHANGED <<lrFrozenVars, lr_epoch, optimizer_lr, lr_printed, decay_call>>

\* PrintLR.on_epoch_end(epoch): print(epoch + 1, model.optimizer.lr.numpy()).
LrEpochEnd ==
    /\ lr_pc = "epoch_end"
    /\ lr_printed' = Append(lr_printed, [epoch |-> lr_epoch + 1, lr |-> optimizer_lr])
    /\ lr_epoch' = lr_epoch + 1
    /\ lr_pc' = (IF lr_epoch + 1 < FIT_EPOCHS THEN "epoch_begin" ELSE "fitted")
    /\ UNCHANGED <<lrFrozenVars, optimizer_lr, lr_used, decay_call>>

NextSchedule ==
    \/ \E e \in DecayEpochs : CallDecay(e)
    \/ LrEpochBegin
    \/ LrTrainEpoch
    \/ LrEpochEnd

SpecSchedule == InitSchedule /\ [][NextSchedule]_vars

\* a <= b of two fractions with positive denominators.
AtMost(a, b) == a.n * b.d <= b.n * a.d

\* The float32 values nearest 1e-3, 1e-4 and 1e-5: 0.0010000000474974513,
\* 9.999999747378752e-05 and 9.999999747378752e-06.
F32_1e3 == [m |-> 8589935, e |-> -33, exact |-> FALSE]

F32_1e4 == [m |-> 13743895, e |-> -37, exact |-> FALSE]

F32_1e5 == [m |-> 10995116, e |-> -40, exact |-> FALSE]

\* decay on every integer tried: one of the three rates by the range of the
\* epoch, never larger at a later epoch.
DecayIsTotalAndNonIncreasing ==
    /\ \A e \in DecayEpochs :
           decay(e) = (IF e < 3 THEN Scalar(1, 1000)
                       ELSE IF e < 7 THEN Scalar(1, 10000)
                       ELSE Scalar(1, 100000))
    /\ \A e1, e2 \in DecayEpochs : e1 <= e2 => AtMost(decay(e2), decay(e1))
    /\ decay_call # <<>> =>
           /\ decay_call.rate \in {Scalar(1, 1000), Scalar(1, 10000), Scalar(1, 100000)}
           /\ decay_call.epoch < 3 <=> decay_call.rate = Scalar(1, 1000)
           /\ decay_call.epoch >= 7 <=> decay_call.rate = Scalar(1, 100000)

\* C27 as stated: decay is total and non-increasing with the three values,
\* and the rate the 1-based epoch n of fit trains with and PrintLR reports at
\* its end is the number decay(n - 1): 1e-3, 1e-4 or 1e-5.
C27_ReportedRateIsDecay ==
    /\ DecayIsTotalAndNonIncreasing
    /\ \A n \in 1..Len(lr_printed) :
           /\ lr_printed[n].epoch = n
           /\ lr_printed[n].lr = to_float32(decay(n - 1))
           /\ lr_printed[n].lr.exact

\* C27, amended: decay is total and non-increasing with the three values; the
\* rate the 1-based epoch n of fit trains with and PrintLR reports at its end
\* is the float32 nearest decay(n - 1), the optimizer's rate being a float32
\* variable: that of 1e-3 in the epochs 1-3, of 1e-4 in 4-7, of 1e-5 in 8-12.
C27_ReportedRateIsFloat32OfDecay ==
    /\ DecayIsTotalAndNonIncreasing
    /\ Len(lr_printed) = lr_epoch
    /\ Len(lr_used) = lr_epoch + (IF lr_pc = "epoch_end" THEN 1 ELSE 0)
    /\ \A n \in 1..Len(lr_used) :
           /\ lr_used[n] = to_float32(decay(n - 1))
           /\ n <= 3 => lr_used[n] = F32_1e3
           /\ (4 <= n /\ n <= 7) => lr_used[n] = F32_1e4
           /\ 8 <= n => lr_used[n] = F32_1e5
    /\ \A n \in 1..Len(lr_printed) :
           lr_printed[n] = [epoch |-> n, lr |-> lr_used[n]]
    /\ lr_pc = "fitted" => Len(lr_printed) = FIT_EPOCHS

\* fit has run its 12 epochs and decay has been called at the last boundary.
C27_Witness ==
    /\ lr_pc = "fitted"
    /\ Len(lr_printed) = 12
    /\ lr_printed[3].lr = F32_1e3
    /\ lr_printed[4].lr = F32_1e4
    /\ lr_printed[7].lr = F32_1e4
    /\ lr_printed[8].lr = F32_1e5
    /\ decay_call # <<>>
    /\ decay_call.epoch = 7

====
